---- MODULE Spec2Model ----
(***************************************************************************)
(* Model of the space_time crate: the Z2 / Z3 bit-interleave codecs, the   *)
(* ZN range refiner (zranges), the point curves ZCurve2D / ZCurve3D and    *)
(* the region curves XZ2SFC / XZ3SFC.                                      *)
(*                                                                         *)
(* Unsigned machine words (u32, u64) are modelled as the set of their set  *)
(* bit positions, so that masks, shifts and comparisons keep the full      *)
(* 64-bit width.  A call that can abort (assert!, expect) returns a record *)
(* [p |-> panicked, v |-> value].                                          *)
(***************************************************************************)
EXTENDS Integers, Sequences, FiniteSets, TLC

VARIABLES
    prog,       \* which entry point this behaviour exercises
    pc,         \* position inside the call
    input,      \* the arguments of the call
    ranges,     \* Vec<Box<dyn IndexRange>> : ranges found so far (pre-merge)
    remaining,  \* VecDeque of pending cubes / XElements and LEVEL_TERMINATOR
    offset,     \* zranges: bits below the cubes being classified
    level,      \* refinement level
    out         \* the value returned by the call

vars == <<prog, pc, input, ranges, remaining, offset, level, out>>

(***************************************************************************)
(* Machine words as sets of bit positions.                                 *)
(***************************************************************************)
BitPositions == 0..63

SetMax(S) == CHOOSE m \in S : \A n \in S : n <= m

SetMin(S) == CHOOSE m \in S : \A n \in S : m <= n

BitAnd(a, b) == a \cap b

BitOr(a, b) == a \cup b

BitXor(a, b) == (a \ b) \cup (b \ a)

\* a << k on a 64-bit word, k in 0..63: bits shifted past bit 63 are lost
Shl(a, k) == {i + k : i \in {j \in a : j + k <= 63}}

\* a >> k on an unsigned word
Shr(a, k) == {i - k : i \in {j \in a : j >= k}}

\* u64::wrapping_shl / wrapping_shr take the shift amount modulo 64
WrappingShl(a, k) == Shl(a, k % 64)

WrappingShr(a, k) == Shr(a, k % 64)

\* unsigned comparison: the highest differing bit decides
ULt(a, b) == \E i \in b \ a : \A j \in a \ b : j < i

ULe(a, b) == a = b \/ ULt(a, b)

UMax(a, b) == IF ULt(a, b) THEN b ELSE a

UMin(a, b) == IF ULt(a, b) THEN a ELSE b

\* a - 1 for a # 0: the lowest set bit is cleared and the bits below it set
USub1(a) == LET l == SetMin(a) IN (a \ {l}) \cup (0..(l - 1))

\* a + 1 on 64 bits (wraps to 0 at u64::MAX)
UAdd1(a) ==
    IF a = BitPositions THEN {}
    ELSE LET l == SetMin(BitPositions \ a) IN (a \ (0..(l - 1))) \cup {l}

\* the word of a hexadecimal literal, most significant digit first
Hex(ds) ==
    {4 * (Len(ds) - p) + j : p \in 1..Len(ds), j \in 0..3} \cap
    {b \in BitPositions :
        LET p == Len(ds) - (b \div 4) IN
        p >= 1 /\ (ds[p] \div (2 ^ (b % 4))) % 2 = 1}

\* the word of a small natural number (below 2^31) and back
Word(n) == {i \in 0..30 : (n \div (2 ^ i)) % 2 = 1}

RECURSIVE SumPow(_)
SumPow(S) == IF S = {} THEN 0 ELSE LET b == SetMax(S) IN 2 ^ b + SumPow(S \ {b})

\* the natural number of a word whose bits all lie below bit 31
Num(a) == SumPow(a)

\* F of the value of e, with e evaluated once: a `let` of the code
Bind(e, F(_)) == CHOOSE r \in {F(t) : t \in {e}} : TRUE

\* results of calls that may abort
Ok(v) == [p |-> FALSE, v |-> v]

Panicked == [p |-> TRUE, v |-> {}]

\* short-circuit && over results of boolean calls that may abort
AndThen(a, b) == IF a.p \/ ~a.v THEN a ELSE b

\* x >= r and x <= r where r is the result of a call that may abort
GeR(x, r) == IF r.p THEN Panicked ELSE Ok(ULe(r.v, x))

LeR(x, r) == IF r.p THEN Panicked ELSE Ok(ULe(x, r.v))

\* x.try_into::<u32>(): fails when a bit above bit 31 is set
TryIntoU32(x) == IF \E b \in x : b >= 32 THEN Panicked ELSE Ok(x)

(***************************************************************************)
(* Z2: two dimensions, 31 bits each (z_2.rs).                              *)
(***************************************************************************)
Z2_DIMENSIONS == 2

Z2_BITS_PER_DIMENSION == 31

Z2_TOTAL_BITS == Z2_DIMENSIONS * Z2_BITS_PER_DIMENSION

\* 0x7fff_ffff
Z2_MAX_MASK == Hex(<<7, 15, 15, 15, 15, 15, 15, 15>>)

\* 0x0000_0000_ffff_ffff
Z2_M32 == Hex(<<0, 0, 0, 0, 0, 0, 0, 0, 15, 15, 15, 15, 15, 15, 15, 15>>)

\* 0x0000_ffff_0000_ffff
Z2_M16 == Hex(<<0, 0, 0, 0, 15, 15, 15, 15, 0, 0, 0, 0, 15, 15, 15, 15>>)

\* 0x00ff_00ff_00ff_00ff
Z2_M8 == Hex(<<0, 0, 15, 15, 0, 0, 15, 15, 0, 0, 15, 15, 0, 0, 15, 15>>)

\* 0x0f0f_0f0f_0f0f_0f0f
Z2_M4 == Hex(<<0, 15, 0, 15, 0, 15, 0, 15, 0, 15, 0, 15, 0, 15, 0, 15>>)

\* 0x3333_3333_3333_3333
Z2_M2 == Hex(<<3, 3, 3, 3, 3, 3, 3, 3, 3, 3, 3, 3, 3, 3, 3, 3>>)

\* 0x5555_5555_5555_5555
Z2_M1 == Hex(<<5, 5, 5, 5, 5, 5, 5, 5, 5, 5, 5, 5, 5, 5, 5, 5>>)

\* one line of split: x = (x | x << k) & mask
SpreadStep(x, k, mask) == BitAnd(BitOr(x, Shl(x, k)), mask)

\* one line of combine: x = (x ^ (x >> k)) & mask
GatherStep(x, k, mask) == BitAnd(BitXor(x, Shr(x, k)), mask)

Z2_split(value) ==
    SpreadStep(SpreadStep(SpreadStep(SpreadStep(SpreadStep(SpreadStep(
        BitAnd(value, Z2_MAX_MASK),
        32, Z2_M32), 16, Z2_M16), 8, Z2_M8), 4, Z2_M4), 2, Z2_M2), 1, Z2_M1)

\* a combine that skips the 8-bit gathering step
Z2_combine_Mutant(z) ==
    TryIntoU32(GatherStep(GatherStep(GatherStep(GatherStep(
        BitAnd(z, Z2_M1),
        1, Z2_M2), 2, Z2_M4), 4, Z2_M8), 16, Z2_M32))

Z2_combine(z) ==
    TryIntoU32(GatherStep(GatherStep(GatherStep(GatherStep(GatherStep(
        BitAnd(z, Z2_M1),
        1, Z2_M2), 2, Z2_M4), 4, Z2_M8), 8, Z2_M16), 16, Z2_M32))

\* Z2::new: both asserts, then split(x) | split(y) << 1
Z2_new(x, y) ==
    IF ~ULe(x, Z2_MAX_MASK) \/ ~ULe(y, Z2_MAX_MASK) THEN Panicked
    ELSE Ok(BitOr(Z2_split(x), Shl(Z2_split(y), 1)))

Z2_dim(z, i) == Z2_combine(Shr(z, i))

Z2_d0(z) == Z2_dim(z, 0)

Z2_d1(z) == Z2_dim(z, 1)

\* the tuple of decoded dimensions, unless one of the calls aborted
Tuple2(a, b) == IF a.p \/ b.p THEN Panicked ELSE Ok(<<a.v, b.v>>)

Tuple3(a, b, c) == IF a.p \/ b.p \/ c.p THEN Panicked ELSE Ok(<<a.v, b.v, c.v>>)

\* Z2::decode: (dim(0), dim(1))
Z2_decode(z) == Tuple2(Z2_dim(z, 0), Z2_dim(z, 1))

\* a1.max(b1) <= a2.min(b2), the four arguments evaluated first
partial_overlaps(a1, a2, b1, b2) ==
    IF a1.p \/ a2.p \/ b1.p \/ b2.p THEN Panicked
    ELSE Ok(ULe(UMax(a1.v, b1.v), UMin(a2.v, b2.v)))

\* the body of Z2::contains once value.decode() has returned (x, y) = d.v
Z2_contains_decoded(range, d) ==
    IF d.p THEN Panicked
    ELSE AndThen(GeR(d.v[1], Z2_d0(range.min)),
         AndThen(LeR(d.v[1], Z2_d0(range.max)),
         AndThen(GeR(d.v[2], Z2_d1(range.min)),
                 LeR(d.v[2], Z2_d1(range.max)))))

Z2_contains(range, value) == Z2_contains_decoded(range, Z2_decode(value))

Z2_overlaps(range, value) ==
    AndThen(partial_overlaps(Z2_d0(range.min), Z2_d0(range.max),
                             Z2_d0(value.min), Z2_d0(value.max)),
            partial_overlaps(Z2_d1(range.min), Z2_d1(range.max),
                             Z2_d1(value.min), Z2_d1(value.max)))

(***************************************************************************)
(* Z3: three dimensions, 21 bits each (z_3.rs).                            *)
(***************************************************************************)
Z3_DIMENSIONS == 3

Z3_BITS_PER_DIMENSION == 21

Z3_TOTAL_BITS == 63

\* 0x1f_ffff
Z3_MAX_MASK == Hex(<<1, 15, 15, 15, 15, 15>>)

\* 0x1f_0000_0000_ffff
Z3_M32 == Hex(<<1, 15, 0, 0, 0, 0, 0, 0, 0, 0, 15, 15, 15, 15>>)

\* 0x1f_0000_ff00_00ff
Z3_M16 == Hex(<<1, 15, 0, 0, 0, 0, 15, 15, 0, 0, 0, 0, 15, 15>>)

\* 0x100f_00f0_0f00_f00f
Z3_M8 == Hex(<<1, 0, 0, 15, 0, 0, 15, 0, 0, 15, 0, 0, 15, 0, 0, 15>>)

\* 0x10c3_0c30_c30c_30c3
Z3_M4 == Hex(<<1, 0, 12, 3, 0, 12, 3, 0, 12, 3, 0, 12, 3, 0, 12, 3>>)

\* 0x1249_2492_4924_9249
Z3_M2 == Hex(<<1, 2, 4, 9, 2, 4, 9, 2, 4, 9, 2, 4, 9, 2, 4, 9>>)

\* a split whose last step spreads with the 2-dimensional stride
Z3_split_Mutant(value) ==
    SpreadStep(SpreadStep(SpreadStep(SpreadStep(SpreadStep(
        BitAnd(value, Z3_MAX_MASK),
        32, Z3_M32), 16, Z3_M16), 8, Z3_M8), 4, Z3_M4), 1, Z3_M2)

Z3_split(value) ==
    SpreadStep(SpreadStep(SpreadStep(SpreadStep(SpreadStep(
        BitAnd(value, Z3_MAX_MASK),
        32, Z3_M32), 16, Z3_M16), 8, Z3_M8), 4, Z3_M4), 2, Z3_M2)

\* the last line of Z3::combine, x = x ^ (x >> 32), has no mask
GatherLast(x) == BitXor(x, Shr(x, 32))

\* Z3::combine, ending in x.try_into().expect(..)
Z3_combine(z) ==
    TryIntoU32(GatherLast(GatherStep(GatherStep(GatherStep(GatherStep(
        BitAnd(z, Z3_M2),
        2, Z3_M4), 4, Z3_M8), 8, Z3_M16), 16, Z3_M32)))

\* a Z3::new without the assert on z
Z3_new_Mutant(x, y, z) ==
    IF ~ULe(x, Z3_MAX_MASK) \/ ~ULe(y, Z3_MAX_MASK)
    THEN Panicked
    ELSE Ok(BitOr(BitOr(Z3_split(x), Shl(Z3_split(y), 1)), Shl(Z3_split(z), 2)))

\* Z3::new: the three asserts, then split(x) | split(y) << 1 | split(z) << 2
Z3_new(x, y, z) ==
    IF ~ULe(x, Z3_MAX_MASK) \/ ~ULe(y, Z3_MAX_MASK) \/ ~ULe(z, Z3_MAX_MASK)
    THEN Panicked
    ELSE Ok(BitOr(BitOr(Z3_split(x), Shl(Z3_split(y), 1)), Shl(Z3_split(z), 2)))

Z3_d0(z) == Z3_combine(z)

Z3_d1(z) == Z3_combine(Shr(z, 1))

Z3_d2(z) == Z3_combine(Shr(z, 2))

Z3_decode(z) == Tuple3(Z3_d0(z), Z3_d1(z), Z3_d2(z))

\* the body of Z3::contains once value.decode() has returned (x, y, z) = d.v
Z3_contains_decoded(range, d) ==
    IF d.p THEN Panicked
    ELSE AndThen(GeR(d.v[1], Z3_d0(range.min)),
         AndThen(LeR(d.v[1], Z3_d0(range.max)),
         AndThen(GeR(d.v[2], Z3_d1(range.min)),
         AndThen(LeR(d.v[2], Z3_d1(range.max)),
         AndThen(GeR(d.v[3], Z3_d2(range.min)),
                 LeR(d.v[3], Z3_d2(range.max)))))))

Z3_contains(range, value) == Z3_contains_decoded(range, Z3_decode(value))

\* the four endpoint values are bound first; each d_i is decoded when used
Z3_overlaps(range, value) ==
    AndThen(partial_overlaps(Z3_d0(range.min), Z3_d0(range.max),
                             Z3_d0(value.min), Z3_d0(value.max)),
    AndThen(partial_overlaps(Z3_d1(range.min), Z3_d1(range.max),
                             Z3_d1(value.min), Z3_d1(value.max)),
            partial_overlaps(Z3_d2(range.min), Z3_d2(range.max),
                             Z3_d2(value.min), Z3_d2(value.max))))

\* ZRange { min, max }
ZRange(min, max) == [min |-> min, max |-> max]

(***************************************************************************)
(* ZN: the refiner shared by Z2 and Z3 (z_n.rs).  Z names the curve type.  *)
(***************************************************************************)
DEFAULT_RECURSE == 7

\* Option<T>: None is <<>>, Some(v) is <<v>>
None == <<>>

Some(v) == <<v>>

LEVEL_TERMINATOR == [min |-> None, max |-> None]

DIMENSIONS(Z) == IF Z = "Z2" THEN Z2_DIMENSIONS ELSE Z3_DIMENSIONS

TOTAL_BITS(Z) == IF Z = "Z2" THEN Z2_TOTAL_BITS ELSE Z3_TOTAL_BITS

QUADRANTS(Z) == 2 ^ DIMENSIONS(Z)

contains(Z, range, value) ==
    IF Z = "Z2" THEN Z2_contains(range, value) ELSE Z3_contains(range, value)

overlaps(Z, range, value) ==
    IF Z = "Z2" THEN Z2_overlaps(range, value) ELSE Z3_overlaps(range, value)

contains_value(Z, range, value) ==
    AndThen(contains(Z, range, value.min), contains(Z, range, value.max))

CoveredRange(lower, upper) == [lower |-> lower, upper |-> upper, contained |-> TRUE]

OverlappingRange(lower, upper) == [lower |-> lower, upper |-> upper, contained |-> FALSE]

\* the endpoints of the bounds: flat_map(|b| vec![b.min, b.max])
Endpoints(zbounds) ==
    [i \in 1..(2 * Len(zbounds)) |->
        IF i % 2 = 1 THEN zbounds[(i + 1) \div 2].min ELSE zbounds[i \div 2].max]

RECURSIVE LcpLoop_Mutant(_, _, _)
\* a loop that goes on to compare the last group of bits
LcpLoop_Mutant(Z, values, bit_shift) ==
    LET head == WrappingShr(values[1], bit_shift) IN
    IF \A i \in 2..Len(values) : WrappingShr(values[i], bit_shift) = head
    THEN LET bs == bit_shift - DIMENSIONS(Z) IN
         IF bs < 0 THEN bs ELSE LcpLoop_Mutant(Z, values, bs)
    ELSE bit_shift

RECURSIVE LcpLoop(_, _, _)
\* the while loop of longest_common_prefix; the result is bit_shift on exit
LcpLoop(Z, values, bit_shift) ==
    LET head == WrappingShr(values[1], bit_shift) IN
    IF \A i \in 2..Len(values) : WrappingShr(values[i], bit_shift) = head
    THEN LET bs == bit_shift - DIMENSIONS(Z) IN
         IF bs = 0 THEN bs ELSE LcpLoop(Z, values, bs)
    ELSE bit_shift

\* ZPrefix { prefix, precision } once the loop has left bit_shift
ZPrefix(values, bit_shift) ==
    [prefix |-> BitAnd(values[1], WrappingShl(BitPositions, bit_shift)),
     precision |-> 64 - bit_shift]

longest_common_prefix(Z, values) ==
    ZPrefix(values, LcpLoop(Z, values, TOTAL_BITS(Z) - DIMENSIONS(Z)) + DIMENSIONS(Z))

\* the early return of a loop that looks for the first bound answering true
OrElse(a, b) == IF a.p \/ a.v THEN a ELSE b

RECURSIVE is_contained(_, _, _, _)
\* the for loop over zbounds, from bound number i
is_contained(Z, range, zbounds, i) ==
    IF i > Len(zbounds) THEN Ok(FALSE)
    ELSE OrElse(contains_value(Z, zbounds[i], range),
                is_contained(Z, range, zbounds, i + 1))

RECURSIVE is_overlapped(_, _, _, _)
is_overlapped(Z, range, zbounds, i) ==
    IF i > Len(zbounds) THEN Ok(FALSE)
    ELSE OrElse(overlaps(Z, zbounds[i], range),
                is_overlapped(Z, range, zbounds, i + 1))

\* max = min | (1_u64.wrapping_shl(offset) - 1)
QuadrantMax(min, off) == BitOr(min, USub1(WrappingShl({0}, off)))

\* quadrant_range, from min = prefix | quadrant.wrapping_shl(offset)
QuadrantRangeFrom(min, off) == ZRange(min, QuadrantMax(min, off))

QuadrantRange(prefix, quadrant, off) ==
    QuadrantRangeFrom(BitOr(prefix, WrappingShl(Word(quadrant), off)), off)

\* ranges.push(Box::new(CoveredRange::new(min, max)))
PushCovered(st, qr) == [st EXCEPT !.ranges = Append(@, CoveredRange(qr.min, qr.max))]

\* a check_value that pushes the pending cube to the front of the queue
PushRemaining_Mutant(st, qr) ==
    [st EXCEPT !.remaining = <<[min |-> Some(qr.min), max |-> Some(qr.max)]>> \o @]

\* remaining.push_back((Some(min), Some(max)))
PushRemaining(st, qr) ==
    [st EXCEPT !.remaining = Append(@, [min |-> Some(qr.min), max |-> Some(qr.max)])]

\* the else-if of check_value, o being the outcome of is_overlapped
CheckOverlapped(o, qr, st) ==
    IF o.p THEN [st EXCEPT !.p = TRUE]
    ELSE IF o.v THEN PushRemaining(st, qr)
    ELSE st

\* the if of check_value, c being the outcome of is_contained
CheckContained(Z, c, qr, off, zbounds, precision, st) ==
    IF c.p THEN [st EXCEPT !.p = TRUE]
    ELSE IF c.v \/ off < 64 - precision THEN PushCovered(st, qr)
    ELSE CheckOverlapped(is_overlapped(Z, qr, zbounds, 1), qr, st)

\* a check_value that tests the cube against the bounds in z-space only
CheckRange_Mutant(Z, qr, off, zbounds, precision, st) ==
    IF st.p THEN st
    ELSE IF (\E i \in 1..Len(zbounds) :
                ULe(zbounds[i].min, qr.min) /\ ULe(qr.max, zbounds[i].max))
            \/ off < 64 - precision
    THEN PushCovered(st, qr)
    ELSE IF \E i \in 1..Len(zbounds) :
                ULe(zbounds[i].min, qr.max) /\ ULe(qr.min, zbounds[i].max)
    THEN PushRemaining(st, qr)
    ELSE st

\* check_value on quadrant_range; st holds ranges and remaining, and p once
\* a call has aborted
CheckRange(Z, qr, off, zbounds, precision, st) ==
    IF st.p THEN st
    ELSE CheckContained(Z, is_contained(Z, qr, zbounds, 1), qr, off, zbounds,
                        precision, st)

check_value(Z, prefix, quadrant, off, zbounds, precision, st) ==
    CheckRange(Z, QuadrantRange(prefix, quadrant, off), off, zbounds, precision, st)

\* a bottom_out that drops the pending cubes instead of pushing them
bottom_out_Mutant(rs, rem) == rs

RECURSIVE bottom_out(_, _)
\* drains remaining into ranges; the terminator is dropped
bottom_out(rs, rem) ==
    IF rem = <<>> THEN rs
    ELSE LET h == Head(rem) IN
         IF h.min # None /\ h.max # None
         THEN bottom_out(Append(rs, OverlappingRange(h.min[1], h.max[1])), Tail(rem))
         ELSE bottom_out(rs, Tail(rem))

RECURSIVE CheckQuadrants(_, _, _, _, _, _, _)
\* while quadrant < QUADRANTS { check_value(..); quadrant += 1 }
CheckQuadrants(Z, prefix, quadrant, off, zbounds, precision, st) ==
    IF quadrant < QUADRANTS(Z)
    THEN CheckQuadrants(Z, prefix, quadrant + 1, off, zbounds, precision,
                        check_value(Z, prefix, quadrant, off, zbounds, precision, st))
    ELSE st

\* IndexRange::cmp: by lower, then by upper
RangeLe(a, b) == ULt(a.lower, b.lower) \/ (a.lower = b.lower /\ ULe(a.upper, b.upper))

RECURSIVE InsertPos(_, _, _, _)
\* the place of r in sorted, by bisection of lo..hi: behind every element
\* that does not compare greater (the sort is stable)
InsertPos(sorted, r, lo, hi) ==
    IF lo > hi THEN lo
    ELSE IF RangeLe(sorted[(lo + hi) \div 2], r)
    THEN InsertPos(sorted, r, (lo + hi) \div 2 + 1, hi)
    ELSE InsertPos(sorted, r, lo, (lo + hi) \div 2 - 1)

InsertSorted(sorted, r) ==
    Bind(sorted, LAMBDA s :
        Bind(InsertPos(s, r, 1, Len(s)), LAMBDA p :
            SubSeq(s, 1, p - 1) \o <<r>> \o SubSeq(s, p, Len(s))))

RECURSIVE SortLoop(_, _, _, _)
\* sorted with rs[lo], .., rs[hi] inserted in this order
SortLoop(rs, lo, hi, sorted) ==
    IF lo > hi THEN sorted
    ELSE IF lo = hi THEN InsertSorted(sorted, rs[lo])
    ELSE Bind(SortLoop(rs, lo, (lo + hi) \div 2, sorted), LAMBDA s :
             SortLoop(rs, (lo + hi) \div 2 + 1, hi, s))

\* ranges.sort()
SortRanges(rs) == SortLoop(rs, 1, Len(rs), <<>>)

\* a merge pass that coalesces overlapping ranges but not adjacent ones
MergeStep_Mutant(acc, range) ==
    IF acc.current = None THEN [acc EXCEPT !.current = Some(range)]
    ELSE LET cur == acc.current[1] IN
         IF ULe(range.lower, cur.upper)
         THEN LET max == UMax(cur.upper, range.upper)
                  min == cur.lower
              IN  [acc EXCEPT !.current =
                        Some(IF cur.contained /\ range.contained
                             THEN CoveredRange(min, max)
                             ELSE OverlappingRange(min, max))]
         ELSE [acc EXCEPT !.results = Append(@, cur), !.current = Some(range)]

\* a merge pass that tags the coalesced range Covered when either of the
\* two ranges was
MergeStep_TagMutant(acc, range) ==
    IF acc.current = None THEN [acc EXCEPT !.current = Some(range)]
    ELSE LET cur == acc.current[1] IN
         IF ULe(range.lower, UAdd1(cur.upper))
         THEN LET max == UMax(cur.upper, range.upper)
                  min == cur.lower
              IN  [acc EXCEPT !.current =
                        Some(IF cur.contained \/ range.contained
                             THEN CoveredRange(min, max)
                             ELSE OverlappingRange(min, max)),
                              !.overflow = @ \/ cur.upper = BitPositions]
         ELSE [acc EXCEPT !.results = Append(@, cur), !.current = Some(range),
                          !.overflow = @ \/ cur.upper = BitPositions]

\* one iteration of the merge loop over the sorted ranges
MergeStep(acc, range) ==
    IF acc.current = None THEN [acc EXCEPT !.current = Some(range)]
    ELSE LET cur == acc.current[1] IN
         IF ULe(range.lower, UAdd1(cur.upper))
         THEN LET max == UMax(cur.upper, range.upper)
                  min == cur.lower
              IN  [acc EXCEPT !.current =
                        Some(IF cur.contained /\ range.contained
                             THEN CoveredRange(min, max)
                             ELSE OverlappingRange(min, max)),
                              !.overflow = @ \/ cur.upper = BitPositions]
         ELSE [acc EXCEPT !.results = Append(@, cur), !.current = Some(range),
                          !.overflow = @ \/ cur.upper = BitPositions]

RECURSIVE MergeLoop(_, _, _, _)
\* for range in ranges, over sorted[lo], .., sorted[hi] in this order
MergeLoop(sorted, lo, hi, acc) ==
    IF lo > hi THEN acc
    ELSE IF lo = hi THEN MergeStep(acc, sorted[lo])
    ELSE Bind(MergeLoop(sorted, lo, (lo + hi) \div 2, acc), LAMBDA a :
             MergeLoop(sorted, (lo + hi) \div 2 + 1, hi, a))

\* results.push(cur) for the last current
MergeEnd(acc) ==
    Bind(acc, LAMBDA a :
        [results |-> IF a.current = None THEN a.results
                     ELSE Append(a.results, a.current[1]),
         overflow |-> a.overflow])

\* the sort and the merge pass; overflow records that cur.upper() + 1
\* was computed for cur.upper() = u64::MAX
MergeRanges(rs) ==
    Bind(SortRanges(rs), LAMBDA sorted :
        MergeEnd(MergeLoop(sorted, 1, Len(sorted),
                           [current |-> None, results |-> <<>>, overflow |-> FALSE])))

(***************************************************************************)
(* Codec calls: Z2::new / Z3::new, decode, and combine(split(v)).          *)
(***************************************************************************)
\* most bits set (or cleared) in a sampled coordinate
MaxBitsSet == 2

RECURSIVE Sparse(_, _)
\* the words with at most k bits set, all inside the bit positions B
Sparse(B, k) ==
    IF k = 0 THEN {{}}
    ELSE Sparse(B, k - 1) \cup {s \cup {i} : s \in Sparse(B, k - 1), i \in B}

\* sampled u32 coordinates: sparse words and words with few bits cleared
Coords(mask) ==
    Sparse(0..31, MaxBitsSet) \cup {mask \ s : s \in Sparse(mask, MaxBitsSet - 1)}

NoOut == [p |-> FALSE]

\* the coordinate pairs and triples tried with a sampled coordinate v
Z2Tuples(v) ==
    {<<v, v>>, <<v, Z2_MAX_MASK \ v>>, <<{}, v>>}

Z3Tuples(v) ==
    {<<v, v, v>>, <<v, Z3_MAX_MASK \ v, {}>>, <<{}, v, Z3_MAX_MASK \ v>>,
     <<Z3_MAX_MASK \ v, {}, v>>}

CodecInit ==
    /\ prog = "codec"
    /\ pc = "start"
    /\ \/ \E v \in Coords(Z2_MAX_MASK) : \E c \in Z2Tuples(v) :
            input = [Z |-> "Z2", x |-> c[1], y |-> c[2], z |-> {}]
       \/ \E v \in Coords(Z3_MAX_MASK) : \E c \in Z3Tuples(v) :
            input = [Z |-> "Z3", x |-> c[1], y |-> c[2], z |-> c[3]]
    /\ ranges = <<>>
    /\ remaining = <<>>
    /\ offset = 0
    /\ level = 0
    /\ out = NoOut

\* Z2::new(x, y)
Z2New ==
    /\ prog = "codec" /\ pc = "start" /\ input.Z = "Z2"
    /\ LET r == Z2_new(input.x, input.y) IN
       /\ out' = [p |-> r.p, z |-> r.v]
       /\ pc' = IF r.p THEN "panic" ELSE "encoded"
    /\ UNCHANGED <<prog, input, ranges, remaining, offset, level>>

\* Z2::new(x, y).decode()
Z2Decode ==
    /\ prog = "codec" /\ pc = "encoded" /\ input.Z = "Z2"
    /\ LET r == Z2_decode(out.z) IN
       /\ out' = [p |-> r.p, z |-> out.z, d |-> r.v]
       /\ pc' = IF r.p THEN "panic" ELSE "decoded"
    /\ UNCHANGED <<prog, input, ranges, remaining, offset, level>>

\* Z2::combine(Z2::split(x))
Z2SplitCombine ==
    /\ prog = "codec" /\ pc = "start" /\ input.Z = "Z2"
    /\ LET r == Z2_combine(Z2_split(input.x)) IN
       /\ out' = [p |-> r.p, s |-> Z2_split(input.x), c |-> r.v]
       /\ pc' = IF r.p THEN "panic" ELSE "combined"
    /\ UNCHANGED <<prog, input, ranges, remaining, offset, level>>

\* Z3::new(x, y, z)
Z3New ==
    /\ prog = "codec" /\ pc = "start" /\ input.Z = "Z3"
    /\ LET r == Z3_new(input.x, input.y, input.z) IN
       /\ out' = [p |-> r.p, z |-> r.v]
       /\ pc' = IF r.p THEN "panic" ELSE "encoded"
    /\ UNCHANGED <<prog, input, ranges, remaining, offset, level>>

\* Z3::new(x, y, z).decode()
Z3Decode ==
    /\ prog = "codec" /\ pc = "encoded" /\ input.Z = "Z3"
    /\ LET r == Z3_decode(out.z) IN
       /\ out' = [p |-> r.p, z |-> out.z, d |-> r.v]
       /\ pc' = IF r.p THEN "panic" ELSE "decoded"
    /\ UNCHANGED <<prog, input, ranges, remaining, offset, level>>

\* Z3::combine(Z3::split(x))
Z3SplitCombine ==
    /\ prog = "codec" /\ pc = "start" /\ input.Z = "Z3"
    /\ LET r == Z3_combine(Z3_split(input.x)) IN
       /\ out' = [p |-> r.p, s |-> Z3_split(input.x), c |-> r.v]
       /\ pc' = IF r.p THEN "panic" ELSE "combined"
    /\ UNCHANGED <<prog, input, ranges, remaining, offset, level>>

CodecNext ==
    \/ Z2New
    \/ Z2Decode
    \/ Z2SplitCombine
    \/ Z3New
    \/ Z3Decode
    \/ Z3SplitCombine

SpecCodec == CodecInit /\ [][CodecNext]_vars

(***************************************************************************)
(* Claims about the codecs (checked under SpecCodec).                      *)
(***************************************************************************)
\* the reference interleave: bit i of coordinate number k (k = 0, 1, ..)
\* of the tuple cs is bit D*i + k of the result
Interleave(D, cs) == {D * i + (k - 1) : k \in 1..D, i \in 0..31} \cap
                     {b \in BitPositions : (b \div D) \in cs[(b % D) + 1]}

Z2InRange == input.Z = "Z2" /\ ULe(input.x, Z2_MAX_MASK) /\ ULe(input.y, Z2_MAX_MASK)

Z3InRange ==
    /\ input.Z = "Z3"
    /\ ULe(input.x, Z3_MAX_MASK)
    /\ ULe(input.y, Z3_MAX_MASK)
    /\ ULe(input.z, Z3_MAX_MASK)

\* C7: for all x, y in [0, 2^31 - 1], Z2::combine(Z2::split(x)) = x and
\* Z2::new(x, y).decode() = (x, y); neither call aborts.
Thm_C7 ==
    (prog = "codec" /\ Z2InRange) =>
        /\ pc # "panic"
        /\ pc = "combined" => out.c = input.x
        /\ pc = "decoded" => out.d = <<input.x, input.y>>

\* a pair with the top bit (bit 30) of both coordinates set has been
\* encoded and decoded back
Wit_C7 ==
    /\ prog = "codec" /\ Z2InRange /\ pc = "decoded"
    /\ 30 \in input.x /\ 30 \in input.y
    /\ out.d = <<input.x, input.y>>

\* C8: for all x, y, z in [0, 2^21 - 1], Z3::combine(Z3::split(x)) returns
\* normally and equals x, and Z3::new(x, y, z).decode() = (x, y, z).
CE_C8 ==
    (prog = "codec" /\ Z3InRange) =>
        /\ pc # "panic"
        /\ pc = "combined" => out.c = input.x
        /\ pc = "decoded" => out.d = <<input.x, input.y, input.z>>

\* C9: Z2::new(x, y).z has bit i of x at position 2i and bit i of y at
\* position 2i + 1 and no other bit; Z3::new(x, y, z).z has bit i of x, y, z
\* at positions 3i, 3i + 1, 3i + 2 and no other bit.
Thm_C9 ==
    (prog = "codec" /\ pc = "encoded") =>
        out.z = IF input.Z = "Z2"
                THEN Interleave(2, <<input.x, input.y>>)
                ELSE Interleave(3, <<input.x, input.y, input.z>>)

\* a Z3 triple whose top bit (bit 20) of the third coordinate is set has
\* been encoded: it lands on bit 62
Wit_C9 ==
    /\ prog = "codec" /\ pc = "encoded" /\ input.Z = "Z3"
    /\ 20 \in input.z /\ 62 \in out.z /\ 0 \in input.x /\ 0 \in out.z

(***************************************************************************)
(* ZCurve2D (z_curve_2d.rs) and ZCurve3D (z_3.rs).  A curve is a record    *)
(* [Z, resolution, x_min, y_min, x_max, y_max, z_max] (resolution is g for *)
(* ZCurve3D).  User coordinates are integers; the sampled curves have      *)
(* x_max - x_min = y_max - y_min = z_max and a resolution that is that     *)
(* extent times a power of two, so that a cell is 2^-k units wide and      *)
(* every f64 operation of map_to_col / map_to_row / time_to_depth is       *)
(* exact.                                                                  *)
(***************************************************************************)
MAX_RECURSION == 32

Log2(n) == CHOOSE k \in 0..31 : 2 ^ k = n

\* a non-negative f64 with integral value w, `as u32`: saturates at u32::MAX
SaturateU32(w) == IF \E b \in w : b >= 32 THEN 0..31 ELSE w

\* ((num) / (extent / resolution)) as u32; a negative f64 casts to 0
FloatAsU32(num, extent, resolution) ==
    IF num < 0 THEN {}
    ELSE SaturateU32(Shl(Word(num), Log2(resolution \div extent)))

map_to_col(curve, x) ==
    FloatAsU32(x - curve.x_min, curve.x_max - curve.x_min, curve.resolution)

map_to_row(curve, y) ==
    FloatAsU32(curve.y_max - y, curve.y_max - curve.y_min, curve.resolution)

time_to_depth(curve, t) == FloatAsU32(t, curve.z_max, curve.resolution)

\* ZCurve2D::index(x, y) and ZCurve3D::index(x, y, t), on the point pt
CurveIndex(curve, pt) ==
    IF curve.Z = "Z2"
    THEN Z2_new(map_to_col(curve, pt[1]), map_to_row(curve, pt[2]))
    ELSE Z3_new(map_to_col(curve, pt[1]), map_to_row(curve, pt[2]),
                time_to_depth(curve, pt[3]))

\* let min = Z::new(col_min, row_min, ..): the corner built from x_min, y_max
\* (and t_min) of the query q = <<x-interval, y-interval, t-interval>>
CurveMin(curve, q) ==
    IF curve.Z = "Z2"
    THEN Z2_new(map_to_col(curve, q[1][1]), map_to_row(curve, q[2][2]))
    ELSE Z3_new(map_to_col(curve, q[1][1]), map_to_row(curve, q[2][2]),
                time_to_depth(curve, q[3][1]))

\* let max = Z::new(col_max, row_max, ..): from x_max, y_min (and t_max)
CurveMax(curve, q) ==
    IF curve.Z = "Z2"
    THEN Z2_new(map_to_col(curve, q[1][2]), map_to_row(curve, q[2][1]))
    ELSE Z3_new(map_to_col(curve, q[1][2]), map_to_row(curve, q[2][1]),
                time_to_depth(curve, q[3][2]))

\* hints.iter().find_map(..): the first hint, clamped to MAX_RECURSION
HintRecurse(hints) ==
    IF hints = <<>> THEN None
    ELSE Some(IF hints[1] > MAX_RECURSION THEN MAX_RECURSION ELSE hints[1])

\* the arguments ranges() passes to zranges, once min and max are built
CurveCall(curve, min, max, hints) ==
    IF min.p \/ max.p THEN Panicked
    ELSE Ok([Z |-> curve.Z, zbounds |-> <<ZRange(min.v, max.v)>>, precision |-> 64,
             max_ranges |-> None, max_recurse |-> HintRecurse(hints)])

\* the arguments of the zranges call a behaviour is in: those of the call
\* itself, or those ZCurve2D::ranges / ZCurve3D::ranges passes on
ZArgs ==
    IF prog = "zranges" THEN input
    ELSE CurveCall(input.curve, CurveMin(input.curve, input.q),
                   CurveMax(input.curve, input.q), input.hints).v

(***************************************************************************)
(* Calls of zranges::<Z2> and zranges::<Z3>.                               *)
(***************************************************************************)
\* largest low part of a sampled Z2 coordinate
MaxCoord == 3

\* largest low part of a sampled Z3 coordinate
MaxCoord3 == 1

\* the high bit or-ed into every coordinate of a call: none, or bit 30 of a
\* Z2 coordinate, or bit 16 of a Z3 coordinate
HighBits(Z) == IF Z = "Z2" THEN {{}, {30}} ELSE {{}, {16}}

MaxCoordOf(Z) == IF Z = "Z2" THEN MaxCoord ELSE MaxCoord3

\* the closed intervals [lo, hi] of sampled coordinates
Intervals(Z, h) ==
    {<<Word(iv[1]) \cup h, Word(iv[2]) \cup h>> :
        iv \in {p \in (0..MaxCoordOf(Z)) \X (0..MaxCoordOf(Z)) : p[1] <= p[2]}}

\* Z::new on a tuple of coordinates
NewZ(Z, c) == IF Z = "Z2" THEN Z2_new(c[1], c[2]) ELSE Z3_new(c[1], c[2], c[3])

\* Z::decode as a tuple
DecodeZ(Z, z) == IF Z = "Z2" THEN Z2_decode(z) ELSE Z3_decode(z)

\* ZRange { min: Z::new(mins), max: Z::new(maxs) } of a user-space box
\* given as one interval per dimension
BoxRange(Z, ivs) ==
    ZRange(NewZ(Z, [k \in 1..DIMENSIONS(Z) |-> ivs[k][1]]).v,
           NewZ(Z, [k \in 1..DIMENSIONS(Z) |-> ivs[k][2]]).v)

\* the single-cell box used as the second bound of a two-bound list
CornerCell(Z) ==
    BoxRange(Z, [k \in 1..DIMENSIONS(Z) |-> <<Word(MaxCoordOf(Z)), Word(MaxCoordOf(Z))>>])

\* a box of six cells a side inside a cube of eight: three levels of cubes
\* have cells inside and outside of it
WideBox(Z) == [k \in 1..DIMENSIONS(Z) |-> <<Word(1), Word(6)>>]

PrecisionSet == {1, 61, 63, 64}

MaxRangesSet == {None, Some(1), Some(4)}

MaxRecurseSet == {None, Some(1), Some(2)}

\* max_recurse = Some(0) is sampled with no other limit
ZInit ==
    /\ prog = "zranges"
    /\ pc = "start"
    /\ \E Z \in {"Z2", "Z3"} : \E h \in HighBits(Z) :
       \E ivs \in [1..DIMENSIONS(Z) -> Intervals(Z, h)]
                     \cup (IF h = {} THEN {WideBox(Z)} ELSE {}) :
       \E more \in {<<>>} \cup (IF h = {} THEN {<<CornerCell(Z)>>} ELSE {}) :
       \E zbounds \in {<<BoxRange(Z, ivs)>> \o more} :
       \E precision \in PrecisionSet :
       \E max_ranges \in MaxRangesSet : \E max_recurse \in MaxRecurseSet \cup {Some(0)} :
            /\ max_recurse = Some(0) => (max_ranges = None /\ precision = 64)
            /\ input = [Z |-> Z, zbounds |-> zbounds, precision |-> precision,
                        max_ranges |-> max_ranges, max_recurse |-> max_recurse]
    /\ ranges = <<>>
    /\ remaining = <<>>
    /\ offset = 0
    /\ level = 0
    /\ out = NoOut

\* max_recurse.unwrap_or(DEFAULT_RECURSE)
MaxRecurseOf(a) ==
    IF a.max_recurse = None THEN DEFAULT_RECURSE ELSE a.max_recurse[1]

\* n > max_ranges.unwrap_or(usize::max_value()), for a length n
ExceedsMaxRanges(n, a) == a.max_ranges # None /\ n > a.max_ranges[1]

\* the builds of the crate: arithmetic overflow aborts in a debug build and
\* wraps in a release build
Builds(overflows) == IF overflows THEN {"debug", "release"} ELSE {"either"}

\* the end of an iteration of `loop`: either back to the top, or (remaining
\* is empty) break, sort, merge and return
EndOfIteration(rs, rem) ==
    IF rem # <<>>
    THEN pc' = "loop" /\ out' = out
    ELSE \E m \in {MergeRanges(rs)} : \E build \in Builds(m.overflow) :
            IF build = "debug"
            THEN pc' = "panic" /\ out' = [p |-> TRUE]
            ELSE pc' = "done" /\ out' = [p |-> FALSE, results |-> m.results]

\* zranges(a.zbounds, a.precision, ..) up to the first pass of `loop`
ZRangesStart(a) ==
    \E lcp \in {longest_common_prefix(a.Z, Endpoints(a.zbounds))} :
    \E st \in {check_value(a.Z, lcp.prefix, 0, 64 - lcp.precision,
                           a.zbounds, a.precision,
                           [p |-> FALSE, ranges |-> <<>>, remaining |-> <<>>])} :
        IF st.p
        THEN /\ pc' = "panic" /\ out' = [p |-> TRUE]
             /\ UNCHANGED <<ranges, remaining, offset, level>>
        ELSE /\ ranges' = st.ranges
             /\ remaining' = Append(st.remaining, LEVEL_TERMINATOR)
             /\ offset' = (64 - lcp.precision) - DIMENSIONS(a.Z)
             /\ level' = 0
             /\ pc' = "loop" /\ out' = out

ZStart ==
    /\ prog = "zranges" /\ pc = "start"
    /\ ZRangesStart(input)
    /\ UNCHANGED <<prog, input>>

\* the arm Some(LEVEL_TERMINATOR).  offset is a u64: when offset -= DIMENSIONS
\* goes below zero the debug build aborts and the release build wraps
\* (the wrapped offset 2^64 - D is kept as -D)
ZTerminator ==
    /\ prog \in {"zranges", "curve"} /\ pc = "loop"
    /\ Head(remaining) = LEVEL_TERMINATOR
    /\ \E a \in {ZArgs} : \E rem \in {Tail(remaining)} :
       IF rem # <<>>
       THEN \E build \in Builds(offset < DIMENSIONS(a.Z)) :
            IF build = "debug"
            THEN /\ pc' = "panic" /\ out' = [p |-> TRUE]
                 /\ UNCHANGED <<ranges, remaining, offset, level>>
            ELSE /\ level' = level + 1
                 /\ IF offset = 0 \/ level' >= MaxRecurseOf(a)
                    THEN ranges' = bottom_out(ranges, rem) /\ remaining' = <<>>
                    ELSE ranges' = ranges /\ remaining' = Append(rem, LEVEL_TERMINATOR)
                 /\ offset' = offset - DIMENSIONS(a.Z)
                 /\ EndOfIteration(ranges', remaining')
       ELSE /\ remaining' = rem
            /\ UNCHANGED <<ranges, offset, level>>
            /\ EndOfIteration(ranges, rem)
    /\ UNCHANGED <<prog, input>>

\* the arm Some((Some(min), _)): the QUADRANTS children of a pending cube
ZCube ==
    /\ prog \in {"zranges", "curve"} /\ pc = "loop"
    /\ Head(remaining).min # None
    /\ \E a \in {ZArgs} :
       \E st \in {CheckQuadrants(a.Z, Head(remaining).min[1], 0, offset,
                                 a.zbounds, a.precision,
                                 [p |-> FALSE, ranges |-> ranges,
                                  remaining |-> Tail(remaining)])} :
           IF st.p
           THEN /\ pc' = "panic" /\ out' = [p |-> TRUE]
                /\ UNCHANGED <<ranges, remaining>>
           ELSE /\ IF ExceedsMaxRanges(Len(st.ranges) + Len(st.remaining), a)
                   THEN /\ ranges' = bottom_out(st.ranges, st.remaining)
                        /\ remaining' = <<>>
                   ELSE /\ ranges' = st.ranges
                        /\ remaining' = st.remaining
                /\ EndOfIteration(ranges', remaining')
    /\ UNCHANGED <<prog, input, offset, level>>

ZNext ==
    \/ ZStart
    \/ ZTerminator
    \/ ZCube

SpecZ == ZInit /\ [][ZNext]_vars

(***************************************************************************)
(* Calls of ZCurve2D::ranges and ZCurve3D::ranges.                         *)
(***************************************************************************)
\* how far beyond the configured box the sampled query corners reach
Margin == 1

\* a ZCurve2D with cells one unit wide, one with cells half a unit wide, a
\* ZCurve3D with g = 2 and one with g = 2^17
Curves ==
    {[Z |-> "Z2", resolution |-> 2, x_min |-> -1, y_min |-> -1, x_max |-> 1,
      y_max |-> 1, z_max |-> 2],
     [Z |-> "Z2", resolution |-> 4, x_min |-> 0, y_min |-> 0, x_max |-> 2,
      y_max |-> 2, z_max |-> 2],
     [Z |-> "Z3", resolution |-> 2, x_min |-> -1, y_min |-> -1, x_max |-> 1,
      y_max |-> 1, z_max |-> 2],
     [Z |-> "Z3", resolution |-> 2 ^ 17, x_min |-> 0, y_min |-> 0, x_max |-> 2 ^ 17,
      y_max |-> 2 ^ 17, z_max |-> 2 ^ 17]}

\* the box is small enough for every coordinate in and around it to be tried
SmallBox(curve) == curve.x_max - curve.x_min <= 2

\* a corner far outside the box, on the x axis of the ZCurve2D with half unit
\* cells: column 2^31
FarCoords(curve) ==
    IF curve.Z = "Z2" /\ curve.resolution > curve.x_max - curve.x_min
    THEN {2 ^ 30} ELSE {}

\* the sampled coordinates of axis k (x, y, t) of a query.  Small box: the
\* box, a margin around it and the far corner; large box: the first cells
\* and, on the x axis, column 2^16
QueryCoords(curve, k) ==
    IF ~SmallBox(curve)
    THEN IF k = 1 THEN {curve.x_min, curve.x_min + 1, curve.x_min + 2 ^ 16}
         ELSE IF k = 2 THEN {curve.y_max - 1, curve.y_max}
         ELSE {0, 1}
    ELSE IF k = 1
    THEN ((curve.x_min - Margin)..(curve.x_max + Margin)) \cup FarCoords(curve)
    ELSE IF k = 2 THEN (curve.y_min - Margin)..(curve.y_max + Margin)
    ELSE 0..curve.z_max

\* min <= max on the axis
QueryIntervals(curve, k) ==
    {iv \in QueryCoords(curve, k) \X QueryCoords(curve, k) : iv[1] <= iv[2]}

HintLists == {<<>>, <<0>>, <<2>>, <<1, 0>>, <<MAX_RECURSION + 1>>}

CurveInit ==
    /\ prog = "curve"
    /\ pc = "start"
    /\ \E curve \in Curves :
       \E qx \in QueryIntervals(curve, 1) : \E qy \in QueryIntervals(curve, 2) :
       \E q \in IF curve.Z = "Z2" THEN {<<qx, qy>>}
                ELSE {<<qx, qy, qt>> : qt \in QueryIntervals(curve, 3)} :
       \E hints \in HintLists :
          input = [curve |-> curve, q |-> q, hints |-> hints]
    /\ ranges = <<>>
    /\ remaining = <<>>
    /\ offset = 0
    /\ level = 0
    /\ out = NoOut

\* ZCurve2D::ranges / ZCurve3D::ranges up to the first pass of zranges' loop
CurveRanges ==
    /\ prog = "curve" /\ pc = "start"
    /\ \E call \in {CurveCall(input.curve, CurveMin(input.curve, input.q),
                              CurveMax(input.curve, input.q), input.hints)} :
          IF call.p
          THEN /\ pc' = "panic" /\ out' = [p |-> TRUE]
               /\ UNCHANGED <<ranges, remaining, offset, level>>
          ELSE ZRangesStart(call.v)
    /\ UNCHANGED <<prog, input>>

CurveNext ==
    \/ CurveRanges
    \/ ZTerminator
    \/ ZCube

SpecCurve == CurveInit /\ [][CurveNext]_vars

(***************************************************************************)
(* Claims about zranges (checked under SpecZ).                             *)
(***************************************************************************)
\* the coordinates and points the properties are evaluated on: every
\* coordinate a call can be given
SampleCoords(Z) == {Word(c) \cup h : c \in 0..MaxCoordOf(Z), h \in HighBits(Z)}

SamplePoints(Z) == [1..DIMENSIONS(Z) -> SampleCoords(Z)]

\* the point d lies in the user-space box of the bound: between the decoded
\* coordinates of bound.min and bound.max on every axis
InBox(Z, bound, d) ==
    \A k \in 1..DIMENSIONS(Z) :
        /\ ULe(DecodeZ(Z, bound.min).v[k], d[k])
        /\ ULe(d[k], DecodeZ(Z, bound.max).v[k])

InSomeBox(Z, zbounds, d) == \E i \in 1..Len(zbounds) : InBox(Z, zbounds[i], d)

InRange(z, r) == ULe(r.lower, z) /\ ULe(z, r.upper)

InSomeRange(z, rs) == \E i \in 1..Len(rs) : InRange(z, rs[i])

Returned == pc = "done"

Ended == pc \in {"done", "panic"}

\* C4: for Z2 and Z3, every non-empty bounds list, every precision and every
\* max_ranges / max_recurse, zranges returns a list and every z-index whose
\* decoded coordinates lie in the user-space box of some bound lies inside
\* some returned range.
CE_C4 ==
    (prog = "zranges" /\ Ended) =>
        /\ Returned
        /\ \A pt \in SamplePoints(input.Z) :
              InSomeBox(input.Z, input.zbounds, pt) =>
                  InSomeRange(NewZ(input.Z, pt).v, out.results)

\* the z-values the tag of a returned range is examined on: the z-value of
\* every sample point and the two ends of the range
SampleZ(Z, r) == {NewZ(Z, pt).v : pt \in SamplePoints(Z)} \cup {r.lower, r.upper}

\* every sampled z-index of a returned Covered range decodes into the
\* user-space box of some bound
CoveredInsideBounds ==
    \A i \in 1..Len(out.results) :
        out.results[i].contained =>
            \A z \in SampleZ(input.Z, out.results[i]) :
                InRange(z, out.results[i]) =>
                    /\ ~DecodeZ(input.Z, z).p
                    /\ InSomeBox(input.Z, input.zbounds, DecodeZ(input.Z, z).v)

\* C6 as stated: for every precision in [1,64] and every budget, every
\* z-index inside a range returned tagged Covered decodes to coordinates
\* inside the user-space box of some bound.
CE_C6 == (prog = "zranges" /\ Returned) => CoveredInsideBounds

\* C6, amended: with precision = 64 and every budget, every z-index inside a
\* range returned tagged Covered decodes to coordinates inside the user-space
\* box of some bound.
Thm_C6 ==
    (prog = "zranges" /\ Returned /\ input.precision = 64) => CoveredInsideBounds

\* a call with precision 64 has returned a Covered range of several cells
\* next to an Overlapping range
Wit_C6 ==
    /\ prog = "zranges" /\ Returned /\ input.precision = 64
    /\ \E i, j \in 1..Len(out.results) :
          /\ out.results[i].contained
          /\ out.results[i].lower # out.results[i].upper
          /\ ~out.results[j].contained

(***************************************************************************)
(* Claims about ZCurve2D / ZCurve3D (checked under SpecCurve).             *)
(***************************************************************************)
\* the sampled coordinates of axis k that lie inside the configured box
BoxCoords(curve, k) ==
    QueryCoords(curve, k) \cap
        (IF k = 1 THEN curve.x_min..curve.x_max
         ELSE IF k = 2 THEN curve.y_min..curve.y_max
         ELSE 0..curve.z_max)

\* the sampled points inside the configured box (every point with integer
\* coordinates when the box is small)
BoxPoints(curve) ==
    IF curve.Z = "Z2" THEN BoxCoords(curve, 1) \X BoxCoords(curve, 2)
    ELSE BoxCoords(curve, 1) \X BoxCoords(curve, 2) \X BoxCoords(curve, 3)

\* the query box q contains the point pt
QueryContains(Z, q, pt) ==
    \A k \in 1..DIMENSIONS(Z) : q[k][1] <= pt[k] /\ pt[k] <= q[k][2]

\* C1: for ZCurve2D and ZCurve3D, every point p inside the configured box,
\* every query box Q (min <= max on each axis) that contains p and every hint
\* list: ranges(Q) returns a list with a range r such that
\* r.lower <= index(p) <= r.upper.
CE_C1 ==
    (prog = "curve" /\ Ended) =>
        /\ Returned
        /\ \A pt \in BoxPoints(input.curve) :
              QueryContains(input.curve.Z, input.q, pt) =>
                  /\ ~CurveIndex(input.curve, pt).p
                  /\ InSomeRange(CurveIndex(input.curve, pt).v, out.results)

(***************************************************************************)
(* XZ2SFC (xz2_sfc.rs) and XZ3SFC (xz3_sfc.rs).  A curve is a record       *)
(* [D, g, min, max]: D = 2 or 3 dimensions, resolution g, and the corners  *)
(* of the configured domain.  A normalised coordinate (an f64 in [0, 1])   *)
(* is kept as the integer number of 2^-UnitBits it holds: the sampled      *)
(* inputs and the corners of every cell down to level UnitBits are such    *)
(* multiples, and on them the f64 operations of the code are exact.  The   *)
(* sizes of the domain are powers of two, so that normalize is exact too.  *)
(* A sequence code is a u64, kept as four 16-bit limbs (least significant  *)
(* first) while it is computed; an arithmetic result is a record [v, o]    *)
(* of the wrapped value and whether some operation overflowed.             *)
(***************************************************************************)
\* the resolution of the one deep curve sampled, XZ3SFC::new(21, ..)
BigG == 21

\* the cells of the deep curve and the centres of their parents are whole
UnitBits == BigG + 1

\* the normalised 1.0
Units == 2 ^ UnitBits

Limb == 2 ^ 16

LimbsZero == <<0, 0, 0, 0>>

LimbsOne == <<1, 0, 0, 0>>

LimbsMax == <<Limb - 1, Limb - 1, Limb - 1, Limb - 1>>

\* the limbs as a word
LimbsWord(l) == {i \in 0..63 : (l[(i \div 16) + 1] \div (2 ^ (i % 16))) % 2 = 1}

Exact(l) == [v |-> l, o |-> FALSE]

\* Q.pow(exp) for Q = 2^D: 4_u64.pow / 8_u64.pow.  exp is a u32 difference:
\* below zero it has wrapped to a huge exponent
U64Pow(D, exp) ==
    IF exp < 0 \/ D * exp >= 64 THEN [v |-> LimbsZero, o |-> TRUE]
    ELSE Exact([i \in 1..4 |-> IF ((D * exp) \div 16) + 1 = i
                                THEN 2 ^ ((D * exp) % 16) ELSE 0])

\* r - 1
U64Sub1(r) ==
    Bind(r, LAMBDA t :
        IF t.v = LimbsZero THEN [v |-> LimbsMax, o |-> TRUE]
        ELSE [v |-> [i \in 1..4 |->
                        IF \A j \in 1..(i - 1) : t.v[j] = 0
                        THEN (IF t.v[i] = 0 THEN Limb - 1 ELSE t.v[i] - 1)
                        ELSE t.v[i]],
              o |-> t.o])

RECURSIVE MulCarry(_, _, _)
\* the carry out of limb i of k * l
MulCarry(k, l, i) ==
    IF i = 0 THEN 0 ELSE (k * l[i] + MulCarry(k, l, i - 1)) \div Limb

\* k * r for a small k
U64Mul(k, r) ==
    Bind(r, LAMBDA t :
        [v |-> [i \in 1..4 |-> (k * t.v[i] + MulCarry(k, t.v, i - 1)) % Limb],
         o |-> t.o \/ MulCarry(k, t.v, 4) > 0])

RECURSIVE DivRem(_, _, _)
\* the remainder of limbs i..4 of l by d
DivRem(l, d, i) ==
    IF i > 4 THEN 0 ELSE (DivRem(l, d, i + 1) * Limb + l[i]) % d

\* div_floor(r, d) for a small d
U64Div(r, d) ==
    Bind(r, LAMBDA t :
        [v |-> [i \in 1..4 |-> (DivRem(t.v, d, i + 1) * Limb + t.v[i]) \div d],
         o |-> t.o])

RECURSIVE AddCarry(_, _, _)
\* the carry out of limb i of a + b
AddCarry(a, b, i) ==
    IF i = 0 THEN 0 ELSE (a[i] + b[i] + AddCarry(a, b, i - 1)) \div Limb

\* ra + rb
U64Add(ra, rb) ==
    Bind(<<ra, rb>>, LAMBDA t :
        [v |-> [i \in 1..4 |-> (t[1].v[i] + t[2].v[i] + AddCarry(t[1].v, t[2].v, i - 1)) % Limb],
         o |-> t[1].o \/ t[2].o \/ AddCarry(t[1].v, t[2].v, 4) > 0])

XZ_LEVEL_TERMINATOR == None

XElement(min, max, length) == [min |-> min, max |-> max, length |-> length]

\* xext / yext / zext: axis k of the extended element
XElement_ext(el, k) == el.max[k] + el.length

XElement_is_contained(el, window) ==
    /\ \A k \in DOMAIN el.min : window.min[k] <= el.min[k]
    /\ \A k \in DOMAIN el.min : window.max[k] >= XElement_ext(el, k)

XElement_overlaps(el, window) ==
    /\ \A k \in DOMAIN el.min : window.max[k] >= el.min[k]
    /\ \A k \in DOMAIN el.min : window.min[k] <= XElement_ext(el, k)

\* child number c (from 0) takes the upper half of axis k iff bit k - 1 of c
UpperHalf(c, k) == (c \div (2 ^ (k - 1))) % 2 = 1

\* (min + max) / 2.0 on axis k
Center(min, max, k) == (min[k] + max[k]) \div 2

\* XElement::children, in the order of the vec!
XElement_children(el) ==
    [c \in 1..(2 ^ Len(el.min)) |->
        XElement([k \in DOMAIN el.min |->
                     IF UpperHalf(c - 1, k) THEN Center(el.min, el.max, k)
                     ELSE el.min[k]],
                 [k \in DOMAIN el.min |->
                     IF UpperHalf(c - 1, k) THEN el.max[k]
                     ELSE Center(el.min, el.max, k)],
                 el.length \div 2)]

\* XElement::new(0.0, .., 1.0, .., 1.0).children()
level_one_elements(D) ==
    XElement_children(XElement([k \in 1..D |-> 0], [k \in 1..D |-> Units], Units))

\* the arm of the match in sequence_code: 1 on an axis with x >= x_center
MatchArm(pt, min, max) ==
    [k \in DOMAIN pt |-> IF pt[k] < Center(min, max, k) THEN 0 ELSE 1]

\* the place of the arm in the match: x is the lowest bit
ArmRank(arm) == arm[1] + 2 * arm[2] + (IF Len(arm) = 3 THEN 4 * arm[3] ELSE 0)

\* what the arm adds to cs besides 1, at iteration i: div_floor(k * (Q^(g-i)
\* - 1), Q - 1), nothing in the first arm.  XZ2SFC writes its last arm as
\* div_floor(3 * 4^(g - i) - 1, 3)
ArmOffset(sfc, rank, i) ==
    IF rank = 0 THEN Exact(LimbsZero)
    ELSE IF sfc.D = 2 /\ rank = 3
    THEN U64Div(U64Sub1(U64Mul(3, U64Pow(2, sfc.g - i))), 3)
    ELSE IF rank = 1
    THEN U64Div(U64Sub1(U64Pow(sfc.D, sfc.g - i)), 2 ^ sfc.D - 1)
    ELSE U64Div(U64Mul(rank, U64Sub1(U64Pow(sfc.D, sfc.g - i))), 2 ^ sfc.D - 1)

\* the cell the arm narrows to
ArmMin(arm, min, max) ==
    [k \in DOMAIN arm |-> IF arm[k] = 1 THEN Center(min, max, k) ELSE min[k]]

ArmMax(arm, min, max) ==
    [k \in DOMAIN arm |-> IF arm[k] = 1 THEN max[k] ELSE Center(min, max, k)]

\* the body of the loop of sequence_code; s holds min, max and cs
SequenceStep(sfc, arm, i, s) ==
    [min |-> ArmMin(arm, s.min, s.max),
     max |-> ArmMax(arm, s.min, s.max),
     cs |-> U64Add(s.cs, U64Add(Exact(LimbsOne), ArmOffset(sfc, ArmRank(arm), i)))]

RECURSIVE SequenceLoop(_, _, _, _, _)
\* for i in 0..length
SequenceLoop(sfc, pt, length, i, s) ==
    IF i >= length THEN s.cs
    ELSE SequenceLoop(sfc, pt, length, i + 1,
                      Bind(s, LAMBDA t :
                          Bind(MatchArm(pt, t.min, t.max), LAMBDA arm :
                              SequenceStep(sfc, arm, i, t))))

sequence_code(sfc, pt, length) ==
    SequenceLoop(sfc, pt, length, 0,
                 [min |-> [k \in 1..sfc.D |-> 0], max |-> [k \in 1..sfc.D |-> Units],
                  cs |-> Exact(LimbsZero)])

\* what sequence_interval adds to min when partial is false
IntervalSpan(sfc, length) ==
    IF sfc.D = 2 THEN U64Div(U64Sub1(U64Pow(2, sfc.g - length + 1)), 3)
    ELSE U64Div(U64Pow(3, sfc.g - length + 1), 7)

\* the interval from its min
IntervalFrom(sfc, min, length, partial) ==
    [min |-> min, max |-> IF partial THEN min ELSE U64Add(min, IntervalSpan(sfc, length))]

sequence_interval(sfc, pt, length, partial) ==
    Bind(sequence_code(sfc, pt, length), LAMBDA min :
        IntervalFrom(sfc, min, length, partial))

\* ranges.push of the interval as a CoveredRange / OverlappingRange; st
\* holds ranges, remaining and whether an operation has overflowed
PushInterval(st, iv, contained) ==
    Bind(iv, LAMBDA t :
        [st EXCEPT !.ranges =
                      Append(@, IF contained
                                THEN CoveredRange(LimbsWord(t.min.v), LimbsWord(t.max.v))
                                ELSE OverlappingRange(LimbsWord(t.min.v), LimbsWord(t.max.v))),
                   !.o = @ \/ t.max.o])

\* for el in quad.children() { remaining.push_back(Some(el)) }
PushChildren(st, el) ==
    [st EXCEPT !.remaining =
                  @ \o [c \in 1..(2 ^ Len(el.min)) |-> Some(XElement_children(el)[c])]]

\* check_value (is_contained and is_overlapped go over the one query window)
XZ_check_value(sfc, el, lv, window, st) ==
    IF XElement_is_contained(el, window)
    THEN PushInterval(st, sequence_interval(sfc, el.min, lv, FALSE), TRUE)
    ELSE IF XElement_overlaps(el, window)
    THEN PushChildren(PushInterval(st, sequence_interval(sfc, el.min, lv, TRUE), FALSE), el)
    ELSE st

\* a drain that keeps the level it starts with
DrainLevel_Mutant(rem, lv, j) == lv

\* the level at which the drain reaches remaining[j]: level += 1 at every
\* terminator popped before it
DrainLevel(rem, lv, j) ==
    lv + Cardinality({i \in 1..(j - 1) : rem[i] = XZ_LEVEL_TERMINATOR})

\* the interval the drain computes for each element of remaining
DrainIntervals(sfc, rem, lv) ==
    [j \in 1..Len(rem) |->
        IF rem[j] = XZ_LEVEL_TERMINATOR THEN XZ_LEVEL_TERMINATOR
        ELSE Some(sequence_interval(sfc, rem[j][1].min, DrainLevel(rem, lv, j), FALSE))]

IsElement(quad) == quad # XZ_LEVEL_TERMINATOR

\* the OverlappingRange pushed for each element, in the order of the queue
DrainedRanges(ivs) ==
    [j \in 1..Len(ivs) |-> OverlappingRange(LimbsWord(ivs[j][1].min.v),
                                            LimbsWord(ivs[j][1].max.v))]

\* while let Some(quad) = remaining.pop_front() { .. }, on the state st
XZ_Drain(sfc, st) ==
    Bind(DrainIntervals(sfc, st.remaining, st.level), LAMBDA ivs :
        [ranges |-> st.ranges \o DrainedRanges(SelectSeq(ivs, IsElement)),
         remaining |-> <<>>,
         level |-> DrainLevel(st.remaining, st.level, Len(st.remaining) + 1),
         o |-> st.o \/ \E j \in 1..Len(ivs) : IsElement(ivs[j]) /\ ivs[j][1].max.o])

\* x_size / y_size / z_size
XZ_size(sfc, k) == sfc.max[k] - sfc.min[k]

\* (v - min) / size on axis k, in 2^-UnitBits; the sizes are powers of two
NormalizeAxis(sfc, k, v) ==
    IF XZ_size(sfc, k) >= Units
    THEN (v - sfc.min[k]) \div (XZ_size(sfc, k) \div Units)
    ELSE (v - sfc.min[k]) * (Units \div XZ_size(sfc, k))

\* the normalised corners of the box b = [min, max]
Normalized(sfc, b) ==
    [min |-> [k \in 1..sfc.D |-> NormalizeAxis(sfc, k, b.min[k])],
     max |-> [k \in 1..sfc.D |-> NormalizeAxis(sfc, k, b.max[k])]]

\* XZ2SFC::normalize asserts min <= max and that the box is inside the
\* domain; XZ3SFC::normalize has no assert
XZ_normalize(sfc, b) ==
    IF sfc.D = 2 /\ ~(/\ \A k \in 1..2 : b.min[k] <= b.max[k]
                     /\ \A k \in 1..2 : b.min[k] >= sfc.min[k] /\ b.max[k] <= sfc.max[k])
    THEN Panicked
    ELSE Ok(Normalized(sfc, b))

RECURSIVE MaxDim(_, _)
\* (nxmax - nxmin).max(nymax - nymin)(.max(nzmax - nzmin)), over axes 1..k
MaxDim(n, k) ==
    IF k = 1 THEN n.max[1] - n.min[1]
    ELSE IF n.max[k] - n.min[k] > MaxDim(n, k - 1) THEN n.max[k] - n.min[k]
    ELSE MaxDim(n, k - 1)

I32_MAX == 2147483647

\* max_dim.log(0.5).floor() as i32: the largest l with 0.5^l >= max_dim;
\* log(0.0) is +inf, which casts to i32::MAX; above 1.0 the value is
\* negative; the log of a negative max_dim is NaN, which casts to 0
ElOne(max_dim) ==
    IF max_dim < 0 THEN 0
    ELSE IF max_dim = 0 THEN I32_MAX
    ELSE IF max_dim <= Units
    THEN CHOOSE l \in 0..UnitBits :
            /\ max_dim * 2 ^ l <= Units
            /\ (l = UnitBits \/ max_dim * 2 ^ (l + 1) > Units)
    ELSE 0 - 1

\* 0.5_f64.powi(l)
HalfPow(l) == Units \div (2 ^ l)

\* max <= (min / w2).floor() * w2 + 2.0 * w2
predicate(min, max, w2) == max <= (min \div w2) * w2 + 2 * w2

\* the condition XZ2SFC::index tests: the predicate on the x axis, twice
XZ2_predicates(n, w2) ==
    predicate(n.min[1], n.max[1], w2) /\ predicate(n.min[1], n.max[1], w2)

XZ3_predicates(n, w2) ==
    /\ predicate(n.min[1], n.max[1], w2)
    /\ predicate(n.min[2], n.max[2], w2)
    /\ predicate(n.min[3], n.max[3], w2)

\* let length = if el_1 as u32 >= self.g { self.g } else { .. }; a negative
\* el_1 casts to a u32 of 2^31 or more
IndexLength(sfc, n, el_1) ==
    IF el_1 < 0 \/ el_1 >= sfc.g THEN sfc.g
    ELSE IF (IF sfc.D = 2 THEN XZ2_predicates(n, HalfPow(el_1 + 1))
             ELSE XZ3_predicates(n, HalfPow(el_1 + 1)))
    THEN el_1 + 1
    ELSE el_1

\* index once normalize has returned n: [p, o, v] for a panic in
\* normalize, an overflow in sequence_code, and the code returned
IndexNormalized(sfc, n) ==
    IF n.p THEN [p |-> TRUE, o |-> FALSE, v |-> {}]
    ELSE Bind(sequence_code(sfc, n.v.min,
                            IndexLength(sfc, n.v, ElOne(MaxDim(n.v, sfc.D)))),
              LAMBDA cs : [p |-> FALSE, o |-> cs.o, v |-> LimbsWord(cs.v)])

\* XZ2SFC::index / XZ3SFC::index of the box b (user coordinates)
XZ_index(sfc, b) == Bind(XZ_normalize(sfc, b), LAMBDA n : IndexNormalized(sfc, n))

(***************************************************************************)
(* Calls of index and ranges of XZ2SFC and XZ3SFC.                         *)
(***************************************************************************)
\* the largest resolution g of the curves sampled in full
MaxG == 3

U16_MAX == 65535

\* the side of a cell of level MaxG
Step == Units \div (2 ^ MaxG)

\* normalised coordinates of the sampled boxes
IndexCoords == {0, Step, (2 ^ (MaxG - 1) + 1) * Step, Units}

\* normalised coordinates of the sampled query windows
WindowCoords(D) == IF D = 2 THEN IndexCoords ELSE IndexCoords \ {Step}

\* the configured domain: x in [-2^21, 2^21], y in [0, 2^23], z in [0, 2^21]
XZ_new(D, g) ==
    [D |-> D, g |-> g,
     min |-> [k \in 1..D |-> IF k = 1 THEN 0 - (Units \div 2) ELSE 0],
     max |-> [k \in 1..D |-> IF k = 2 THEN 2 * Units ELSE Units \div 2]]

XCurves == {XZ_new(p[1], p[2]) : p \in {2, 3} \X (1..MaxG)} \cup {XZ_new(3, BigG)}

\* the user coordinate on axis k that normalises to n
UserCoord(sfc, k, n) ==
    sfc.min[k] + (IF XZ_size(sfc, k) >= Units
                  THEN n * (XZ_size(sfc, k) \div Units)
                  ELSE n \div (Units \div XZ_size(sfc, k)))

\* the boxes with normalised corners in coords, min <= max on every axis
NormBoxes(D, coords) ==
    {[min |-> [k \in 1..D |-> ivs[k][1]], max |-> [k \in 1..D |-> ivs[k][2]]] :
        ivs \in [1..D -> {iv \in coords \X coords : iv[1] <= iv[2]}]}

\* the box in user coordinates
UserBox(sfc, nb) ==
    [min |-> [k \in 1..sfc.D |-> UserCoord(sfc, k, nb.min[k])],
     max |-> [k \in 1..sfc.D |-> UserCoord(sfc, k, nb.max[k])]]

\* a box that reaches outside of the domain: twice the domain on every axis
OutsideBox(D) == [min |-> [k \in 1..D |-> 0], max |-> [k \in 1..D |-> 2 * Units]]

\* a box inside the domain with min > max on the x axis
InvertedBox(D) ==
    [min |-> [k \in 1..D |-> IF k = 1 THEN Units ELSE 0],
     max |-> [k \in 1..D |-> IF k = 1 THEN 0 ELSE Step]]

\* the sampled boxes of index: the boxes inside the domain, one that is
\* not inside it and an inverted one
XBoxes(D) == NormBoxes(D, IndexCoords) \cup {OutsideBox(D), InvertedBox(D)}

\* the sampled query windows, with the same two boxes
XWindows(D) == NormBoxes(D, WindowCoords(D)) \cup {OutsideBox(D), InvertedBox(D)}

XMaxRangesSet == {None, Some(0), Some(1), Some(3)}

XIndexInit ==
    /\ prog = "xzindex"
    /\ pc = "start"
    /\ \E sfc \in XCurves : \E nb \in XBoxes(sfc.D) :
            input = [sfc |-> sfc, b |-> UserBox(sfc, nb)]
    /\ ranges = <<>>
    /\ remaining = <<>>
    /\ offset = 0
    /\ level = 0
    /\ out = NoOut

\* on the deep curve an unbounded query is sampled at the origin only
XRangesInit ==
    /\ prog = "xzranges"
    /\ pc = "start"
    /\ \E sfc \in XCurves : \E nb \in XWindows(sfc.D) :
       \E max_ranges \in XMaxRangesSet :
            /\ (sfc.g > MaxG /\ max_ranges = None) =>
                  \/ \A k \in 1..sfc.D : nb.max[k] \in {0, 2 * Units}
                  \/ nb = InvertedBox(sfc.D)
            /\ input = [sfc |-> sfc, q |-> UserBox(sfc, nb), max_ranges |-> max_ranges]
    /\ ranges = <<>>
    /\ remaining = <<>>
    /\ offset = 0
    /\ level = 0
    /\ out = NoOut

XPanic ==
    /\ pc' = "panic"
    /\ out' = [p |-> TRUE]
    /\ UNCHANGED <<ranges, remaining, level>>

\* XZ2SFC::index / XZ3SFC::index
XIndex ==
    /\ prog = "xzindex" /\ pc = "start"
    /\ \E r \in {XZ_index(input.sfc, input.b)} :
          IF r.p THEN XPanic
          ELSE \E build \in Builds(r.o) :
                  IF build = "debug" THEN XPanic
                  ELSE /\ pc' = "done"
                       /\ out' = [p |-> FALSE, v |-> r.v]
                       /\ UNCHANGED <<ranges, remaining, level>>
    /\ UNCHANGED <<prog, input, offset>>

\* a range_stop that ignores max_ranges
RangeStop_Mutant(a) == U16_MAX

\* max_ranges.unwrap_or(u16::MAX)
RangeStop(a) == IF a.max_ranges = None THEN U16_MAX ELSE a.max_ranges[1]

\* level < self.g && !remaining.is_empty() && ranges.len() < range_stop.into()
XLoopCondition(a, st) ==
    /\ st.level < a.sfc.g
    /\ st.remaining # <<>>
    /\ Len(st.ranges) < RangeStop(a)

\* after the main loop: the drain, the sort and the merge pass
XFinish(a, st) ==
    \E d \in {XZ_Drain(a.sfc, st)} :
    \E m \in {MergeRanges(d.ranges)} :
    \E build \in Builds(d.o \/ m.overflow) :
        IF build = "debug" THEN XPanic
        ELSE /\ pc' = "done"
             /\ ranges' = d.ranges
             /\ remaining' = d.remaining
             /\ level' = d.level
             /\ out' = [p |-> FALSE, results |-> m.results]

\* the end of a pass of the main loop, with st as the pass left it
XEndOfIteration(a, pass) ==
    \E st \in {pass} :
        IF XLoopCondition(a, st)
        THEN \E build \in Builds(st.o) :
                IF build = "debug" THEN XPanic
                ELSE /\ pc' = "loop"
                     /\ ranges' = st.ranges
                     /\ remaining' = st.remaining
                     /\ level' = st.level
                     /\ out' = out
        ELSE XFinish(a, st)

\* ranges and ranges_impl up to the first test of the loop condition
XRangesStart ==
    /\ prog = "xzranges" /\ pc = "start"
    /\ IF XZ_normalize(input.sfc, input.q).p THEN XPanic
       ELSE XEndOfIteration(input,
                [ranges |-> <<>>,
                 remaining |-> [c \in 1..(2 ^ input.sfc.D) |->
                                   Some(level_one_elements(input.sfc.D)[c])]
                               \o <<XZ_LEVEL_TERMINATOR>>,
                 level |-> 1, o |-> FALSE])
    /\ UNCHANGED <<prog, input, offset>>

\* the arm Some(LEVEL_TERMINATOR)
XTerminator ==
    /\ prog = "xzranges" /\ pc = "loop"
    /\ Head(remaining) = XZ_LEVEL_TERMINATOR
    /\ XEndOfIteration(input,
            IF Tail(remaining) # <<>>
            THEN [ranges |-> ranges,
                  remaining |-> Append(Tail(remaining), XZ_LEVEL_TERMINATOR),
                  level |-> level + 1, o |-> FALSE]
            ELSE [ranges |-> ranges, remaining |-> <<>>, level |-> level, o |-> FALSE])
    /\ UNCHANGED <<prog, input, offset>>

\* the arm Some(element): check_value
XElementStep ==
    /\ prog = "xzranges" /\ pc = "loop"
    /\ Head(remaining) # XZ_LEVEL_TERMINATOR
    /\ XEndOfIteration(input,
            XZ_check_value(input.sfc, Head(remaining)[1], level,
                           XZ_normalize(input.sfc, input.q).v,
                           [ranges |-> ranges, remaining |-> Tail(remaining),
                            level |-> level, o |-> FALSE]))
    /\ UNCHANGED <<prog, input, offset>>

XRangesNext ==
    \/ XRangesStart
    \/ XTerminator
    \/ XElementStep

XNext ==
    \/ XIndex
    \/ XRangesNext

SpecXZ == (XIndexInit \/ XRangesInit) /\ [][XNext]_vars

RangesNext ==
    \/ ZNext
    \/ XRangesNext

SpecRanges == (ZInit \/ XRangesInit) /\ [][RangesNext]_vars

(***************************************************************************)
(* Calls of sequence_interval on two elements of one depth.                *)
(***************************************************************************)
\* the resolutions sampled: small ones, the largest of the 2D curve and the
\* two around the width of the 3D arithmetic
IntervalGs(D) == IF D = 2 THEN {1, 2, MaxG, 31} ELSE {1, 2, MaxG, BigG, BigG + 1}

\* the depths sampled on a curve of resolution g
IntervalLevels(g) == {l \in {1, 2, MaxG, BigG, BigG + 1} : l <= g}

\* the cells of depth l sampled on an axis: the first two and the last
CellIndices(l) == {0, 1, 2 ^ l - 1}

\* the min corners of the sampled elements of depth l
ElementCorners(D, l) == [1..D -> {c * HalfPow(l) : c \in CellIndices(l)}]

XIntervalInit ==
    /\ prog = "xzinterval"
    /\ pc = "start"
    /\ \E D \in {2, 3} : \E g \in IntervalGs(D) : \E l \in IntervalLevels(g) :
       \E a \in ElementCorners(D, l) : \E b \in ElementCorners(D, l) :
       \E partial \in BOOLEAN :
            /\ a # b
            /\ input = [sfc |-> XZ_new(D, g), a |-> a, b |-> b, length |-> l,
                        partial |-> partial]
    /\ ranges = <<>>
    /\ remaining = <<>>
    /\ offset = 0
    /\ level = 0
    /\ out = NoOut

\* the interval as the pair of u64 the call returns
IntervalWords(iv) == [min |-> LimbsWord(iv.min.v), max |-> LimbsWord(iv.max.v)]

\* sequence_interval of the element a and of the element b
XInterval ==
    /\ prog = "xzinterval" /\ pc = "start"
    /\ \E ia \in {sequence_interval(input.sfc, input.a, input.length, input.partial)} :
       \E ib \in {sequence_interval(input.sfc, input.b, input.length, input.partial)} :
       \E build \in Builds(ia.max.o \/ ib.max.o) :
          IF build = "debug" THEN XPanic
          ELSE /\ pc' = "done"
               /\ out' = [p |-> FALSE, a |-> IntervalWords(ia), b |-> IntervalWords(ib)]
               /\ UNCHANGED <<ranges, remaining, level>>
    /\ UNCHANGED <<prog, input, offset>>

SpecInterval == XIntervalInit /\ [][XInterval]_vars

(***************************************************************************)
(* Calls of index and of point / invert of ZCurve2D and ZCurve3D.          *)
(* Coordinates returned by point / invert are in quarters of a unit.       *)
(***************************************************************************)
\* the curves of the ranges calls and a ZCurve3D whose cells are half a unit
\* wide and high and one unit deep
PointCurves ==
    Curves \cup {[Z |-> "Z3", resolution |-> 4, x_min |-> 0, y_min |-> 0, x_max |-> 2,
                  y_max |-> 2, z_max |-> 4]}

\* the sampled coordinates of axis k of a point: those of the queries and,
\* around a small box, one far outside on the x axis
PointCoords(curve, k) ==
    QueryCoords(curve, k) \cup (IF k = 1 /\ SmallBox(curve) THEN {2 ^ 30} ELSE {})

\* cell_width(), cell_height() and cell_depth(), in quarters
cell_width(curve) == (4 * (curve.x_max - curve.x_min)) \div curve.resolution

cell_height(curve) == (4 * (curve.y_max - curve.y_min)) \div curve.resolution

cell_depth(curve) == (4 * curve.z_max) \div curve.resolution

\* v.min(hi).max(lo)
MinMax(v, hi, lo) == IF (IF v < hi THEN v ELSE hi) > lo THEN (IF v < hi THEN v ELSE hi) ELSE lo

\* (f64::from(col) * cell_width + x_min + cell_width / 2.0).min(x_max).max(x_min);
\* from column resolution on the sum is above x_max
col_to_map(curve, col) ==
    IF ~ULt(col, Word(curve.resolution)) THEN 4 * curve.x_max
    ELSE MinMax(Num(col) * cell_width(curve) + 4 * curve.x_min + cell_width(curve) \div 2,
                4 * curve.x_max, 4 * curve.x_min)

\* (y_max - f64::from(row) * cell_height - cell_height / 2.0).max(y_min).min(y_max)
row_to_map(curve, row) ==
    IF ~ULt(row, Word(curve.resolution)) THEN 4 * curve.y_min
    ELSE MinMax(4 * curve.y_max - Num(row) * cell_height(curve) - cell_height(curve) \div 2,
                4 * curve.y_max, 4 * curve.y_min)

\* (f64::from(depth) * cell_depth + cell_height / 2.0).min(z_max).max(0.0)
depth_to_time(curve, depth) ==
    IF ~ULt(depth, Word(curve.resolution)) THEN 4 * curve.z_max
    ELSE MinMax(Num(depth) * cell_depth(curve) + cell_height(curve) \div 2,
                4 * curve.z_max, 0)

\* ZCurve2D::point(index) and ZCurve3D::invert(i)
CurvePoint(curve, i) ==
    IF curve.Z = "Z2"
    THEN Ok(<<col_to_map(curve, Z2_decode(i).v[1]), row_to_map(curve, Z2_decode(i).v[2])>>)
    ELSE IF Z3_decode(i).p THEN Panicked
    ELSE Ok(<<col_to_map(curve, Z3_decode(i).v[1]), row_to_map(curve, Z3_decode(i).v[2]),
              depth_to_time(curve, Z3_decode(i).v[3])>>)

\* the sampled points of a curve
PointSamples(curve) == [1..DIMENSIONS(curve.Z) -> UNION {PointCoords(curve, k) : k \in 1..3}]

\* the indices given to point / invert: those of the sampled points, and
\* one with the top bit of every coordinate set
PointIndices(curve) ==
    {CurveIndex(curve, pt).v :
        pt \in {p \in PointSamples(curve) :
                   /\ \A k \in 1..DIMENSIONS(curve.Z) : p[k] \in PointCoords(curve, k)
                   /\ ~CurveIndex(curve, p).p}}
        \cup {IF curve.Z = "Z2" THEN {60, 61} ELSE {60, 61, 62}}

PointInit ==
    /\ pc = "start"
    /\ \E curve \in PointCurves :
          \/ /\ prog = "index"
             /\ \E pt \in PointSamples(curve) :
                   /\ \A k \in 1..DIMENSIONS(curve.Z) : pt[k] \in PointCoords(curve, k)
                   /\ input = [curve |-> curve, pt |-> pt]
          \/ /\ prog = "point"
             /\ \E i \in PointIndices(curve) : input = [curve |-> curve, i |-> i]
    /\ ranges = <<>>
    /\ remaining = <<>>
    /\ offset = 0
    /\ level = 0
    /\ out = NoOut

\* a call that returns r, or aborts
PointReturn(r) ==
    /\ IF r.p THEN pc' = "panic" /\ out' = [p |-> TRUE]
       ELSE pc' = "done" /\ out' = [p |-> FALSE, v |-> r.v]
    /\ UNCHANGED <<prog, input, ranges, remaining, offset, level>>

\* ZCurve2D::index / ZCurve3D::index
PointIndex ==
    /\ prog = "index" /\ pc = "start"
    /\ PointReturn(CurveIndex(input.curve, input.pt))

\* ZCurve2D::point / ZCurve3D::invert
PointInvert ==
    /\ prog = "point" /\ pc = "start"
    /\ PointReturn(CurvePoint(input.curve, input.i))

PointNext ==
    \/ PointIndex
    \/ PointInvert

SpecPoint == PointInit /\ [][PointNext]_vars

(***************************************************************************)
(* NormalizedDimension: LatNormalizer, LonNormalizer and TimeNormalizer.   *)
(* A normaliser is [min, max, precision]; x is sampled where the f64       *)
(* product (x - min) * normalizer() is exact or far from an integer, so    *)
(* that its floor is the floor of the exact quotient.                      *)
(***************************************************************************)
I32_MIN == 0 - I32_MAX - 1

LatNormalizer(precision) == [min |-> 0 - 90, max |-> 90, precision |-> precision]

LonNormalizer(precision) == [min |-> 0 - 180, max |-> 180, precision |-> precision]

TimeNormalizer(precision, max) == [min |-> 0, max |-> max, precision |-> precision]

\* (bins() - 1).try_into::<i32>() with bins() = 1_i64 << precision
max_index(n) == (2 ^ (n.precision - 1) - 1) + 2 ^ (n.precision - 1)

RECURSIVE ScaleFloor(_, _, _, _)
\* d * 2^p / e as quotient q and remainder r, from d = q * e + r
ScaleFloor(q, r, e, p) ==
    IF p = 0 THEN [q |-> q, r |-> r]
    ELSE ScaleFloor(2 * q + (IF 2 * r >= e THEN 1 ELSE 0), (2 * r) % e, e, p - 1)

\* (d * normalizer()).floor() as i32 for d = x - min and the extent e =
\* max - min: the cast saturates at i32::MIN
FloorAsI32(d, e, p) ==
    IF d >= 0 THEN ScaleFloor(d \div e, d % e, e, p).q
    ELSE IF ((0 - d) \div e) >= 2 ^ (31 - p) THEN I32_MIN
    ELSE 0 - (ScaleFloor((0 - d) \div e, (0 - d) % e, e, p).q
              + (IF ScaleFloor((0 - d) \div e, (0 - d) % e, e, p).r > 0 THEN 1 ELSE 0))

\* NormalizedDimension::normalize
normalize(n, x) ==
    IF x >= n.max THEN max_index(n)
    ELSE FloorAsI32(x - n.min, n.max - n.min, n.precision)

\* the precisions the constructors accept
Precisions == 1..31

\* the sampled normalisers: TimeNormalizer with a power of two as max
Normalizers ==
    {LatNormalizer(p) : p \in Precisions} \cup {LonNormalizer(p) : p \in Precisions}
        \cup {TimeNormalizer(p, max) : p \in Precisions, max \in {1, 16, 2 ^ 30}}

\* the sampled inputs of a normaliser, as x - min: around min and max and
\* one extent and more outside on both sides; inside a TimeNormalizer also
\* the middle
NormInputs(n) ==
    {0 - (n.max - n.min) - 1, 0 - 1, 0, 1, n.max - n.min - 1, n.max - n.min,
     n.max - n.min + 1}
        \cup (IF n.min = 0
              THEN {0 - 2 * (n.max \div 2), 0 - n.max, n.max \div 2, n.max + n.max \div 2}
              ELSE {})

NormInit ==
    /\ prog = "normalize"
    /\ pc = "start"
    /\ \E n \in Normalizers : \E d \in NormInputs(n) :
          input = [norm |-> n, x |-> n.min + d]
    /\ ranges = <<>>
    /\ remaining = <<>>
    /\ offset = 0
    /\ level = 0
    /\ out = NoOut

\* a call of normalize
Normalize ==
    /\ prog = "normalize" /\ pc = "start"
    /\ pc' = "done"
    /\ out' = [p |-> FALSE, v |-> normalize(input.norm, input.x)]
    /\ UNCHANGED <<prog, input, ranges, remaining, offset, level>>

SpecNorm == NormInit /\ [][Normalize]_vars

(***************************************************************************)
(* BinnedTime::from_millis.  A time::Duration is [neg, m, ms]: its sign,   *)
(* and its magnitude as whole minutes and the milliseconds of the last     *)
(* minute; whole_days, whole_weeks, whole_seconds and whole_minutes        *)
(* truncate towards zero.                                                  *)
(***************************************************************************)
DAYS_IN_MONTH == 31

WEEKS_IN_YEAR == 52

MinutesInDay == 1440

MinutesInWeek == 10080

MillisInMinute == 60000

Abs(n) == IF n < 0 THEN 0 - n ELSE n

Signed(neg, n) == IF neg THEN 0 - n ELSE n

\* Duration::days(n), Duration::weeks(n)
DurationDays(n) == [neg |-> n < 0, m |-> Abs(n) * MinutesInDay, ms |-> 0]

DurationWeeks(n) == [neg |-> n < 0, m |-> Abs(n) * MinutesInWeek, ms |-> 0]

whole_days(d) == Signed(d.neg, d.m \div MinutesInDay)

whole_weeks(d) == Signed(d.neg, d.m \div MinutesInWeek)

whole_minutes(d) == Signed(d.neg, d.m)

\* of a duration below 2^31 seconds
whole_seconds(d) == Signed(d.neg, d.m * 60 + d.ms \div 1000)

\* of a duration below 2^31 milliseconds
whole_milliseconds(d) == Signed(d.neg, d.m * MillisInMinute + d.ms)

\* truncating division of i64
DivTrunc(a, b) == Signed(a < 0, Abs(a) \div b)

\* duration -= part, for a part of whole minutes that has the sign of the
\* duration and is not longer
DurationSub(d, part) ==
    IF d.m - part.m = 0 /\ d.ms = 0 THEN [neg |-> FALSE, m |-> 0, ms |-> 0]
    ELSE [neg |-> d.neg, m |-> d.m - part.m, ms |-> d.ms]

BinnedTime(bin, unit, num) == [bin |-> bin, unit |-> unit, offset |-> num]

millis_to_day_and_millis(duration) ==
    BinnedTime(whole_days(duration), "Milliseconds",
               whole_milliseconds(DurationSub(duration, DurationDays(whole_days(duration)))))

millis_to_week_and_seconds(duration) ==
    BinnedTime(whole_weeks(duration), "Seconds",
               whole_seconds(DurationSub(duration, DurationWeeks(whole_weeks(duration)))))

millis_to_month_and_seconds(duration) ==
    BinnedTime(DivTrunc(whole_days(duration), DAYS_IN_MONTH), "Seconds",
               whole_seconds(DurationSub(duration,
                   DurationDays(DivTrunc(whole_days(duration), DAYS_IN_MONTH) * DAYS_IN_MONTH))))

\* just_the_year is Duration::days(years * WEEKS_IN_YEAR)
millis_to_year_and_minutes(duration) ==
    BinnedTime(DivTrunc(whole_weeks(duration), WEEKS_IN_YEAR), "Minutes",
               whole_minutes(DurationSub(duration,
                   DurationDays(DivTrunc(whole_weeks(duration), WEEKS_IN_YEAR) * WEEKS_IN_YEAR))))

TimePeriods == {"Day", "Week", "Month", "Year"}

\* the sampled whole minutes of |millis|: around one minute, day, week,
\* month of 31 days and year of 52 weeks, the three examples of the module
\* documentation, and 2000 years
SampleMinutes ==
    {0, 1, MinutesInDay - 1, MinutesInDay, MinutesInWeek - 1, MinutesInWeek,
     DAYS_IN_MONTH * MinutesInDay - 1, DAYS_IN_MONTH * MinutesInDay,
     WEEKS_IN_YEAR * MinutesInWeek - 1, WEEKS_IN_YEAR * MinutesInWeek,
     2 * WEEKS_IN_YEAR * MinutesInWeek + 1, 25200, 289440, 26437680,
     2000 * WEEKS_IN_YEAR * MinutesInWeek + 7}

\* the sampled milliseconds of the last minute
SampleMillis == {0, 1, 999, 1000, MillisInMinute - 1}

BinnedInit ==
    /\ prog = "from_millis"
    /\ pc = "start"
    /\ \E period \in TimePeriods : \E neg \in BOOLEAN :
       \E m \in SampleMinutes : \E ms \in SampleMillis :
          /\ neg => (m # 0 \/ ms # 0)
          /\ input = [period |-> period, millis |-> [neg |-> neg, m |-> m, ms |-> ms]]
    /\ ranges = <<>>
    /\ remaining = <<>>
    /\ offset = 0
    /\ level = 0
    /\ out = NoOut

\* BinnedTime::from_millis(period, millis) has matched period and returns bt
FromMillis(period, bt) ==
    /\ prog = "from_millis" /\ pc = "start" /\ input.period = period
    /\ pc' = "done"
    /\ out' = [p |-> FALSE, v |-> bt]
    /\ UNCHANGED <<prog, input, ranges, remaining, offset, level>>

FromMillisDay == FromMillis("Day", millis_to_day_and_millis(input.millis))

FromMillisWeek == FromMillis("Week", millis_to_week_and_seconds(input.millis))

FromMillisMonth == FromMillis("Month", millis_to_month_and_seconds(input.millis))

FromMillisYear == FromMillis("Year", millis_to_year_and_minutes(input.millis))

BinnedNext ==
    \/ FromMillisDay
    \/ FromMillisWeek
    \/ FromMillisMonth
    \/ FromMillisYear

SpecBinned == BinnedInit /\ [][BinnedNext]_vars

(***************************************************************************)
(* Calls of Z2 / Z3::longest_common_prefix.                                *)
(***************************************************************************)
\* the sampled z values of a curve: values that differ in the last group,
\* in the second group, in a high group and in the top group of the curve
LcpValues(Z) ==
    {{}, {0}, {0, 1}, {0, 1, 2}, {DIMENSIONS(Z)}, {0, 2, 3}, {2, 3}, {0, 1, 2, 3}, {57},
     {TOTAL_BITS(Z) - 1}, {TOTAL_BITS(Z) - 1, 0}, 0..(TOTAL_BITS(Z) - 1)}

\* the sampled slices: one to three sampled values, and the slice of the
\* unit test, [u64::max_value(), u64::max_value() - 15]
LcpSlices(Z) ==
    {<<a>> : a \in LcpValues(Z)}
        \cup {<<a, b>> : a \in LcpValues(Z), b \in LcpValues(Z)}
        \cup {<<a, b, c>> : a \in LcpValues(Z), b \in LcpValues(Z), c \in LcpValues(Z)}
        \cup {<<BitPositions, BitPositions \ {0, 1, 2, 3}>>}

LcpInit ==
    /\ prog = "lcp"
    /\ pc = "start"
    /\ \E Z \in {"Z2", "Z3"} : \E values \in LcpSlices(Z) :
          input = [Z |-> Z, values |-> values]
    /\ ranges = <<>>
    /\ remaining = <<>>
    /\ offset = 0
    /\ level = 0
    /\ out = NoOut

\* a call of longest_common_prefix
Lcp ==
    /\ prog = "lcp" /\ pc = "start"
    /\ pc' = "done"
    /\ out' = [p |-> FALSE, v |-> longest_common_prefix(input.Z, input.values)]
    /\ UNCHANGED <<prog, input, ranges, remaining, offset, level>>

SpecLcp == LcpInit /\ [][Lcp]_vars

(***************************************************************************)
(* Claims about XZ2SFC and XZ3SFC (checked under SpecXZ).                  *)
(***************************************************************************)
\* the depth the XZ-ordering rule gives the normalised box n: g when
\* l1 >= g, l1 + 1 when the predicate holds on every axis, else l1
RuleDepth(sfc, n, l1) ==
    IF l1 >= sfc.g THEN sfc.g
    ELSE IF \A k \in 1..sfc.D : predicate(n.min[k], n.max[k], HalfPow(l1 + 1))
    THEN l1 + 1
    ELSE l1

\* the lower corner, on one axis, of the cell of side w that sequence_code
\* descends to from the coordinate v
CellMin(v, w) == IF v >= Units THEN Units - w ELSE (v \div w) * w

\* the extended cell of the depth holds the normalised box n
Encloses(n, depth) ==
    \A k \in DOMAIN n.min :
        /\ CellMin(n.min[k], HalfPow(depth)) <= n.min[k]
        /\ n.max[k] <= CellMin(n.min[k], HalfPow(depth)) + 2 * HalfPow(depth)

\* the depth of the code c of the normalised box n, 0 if none
CodeDepth(sfc, n, c) ==
    IF \E d \in 1..sfc.g : LimbsWord(sequence_code(sfc, n.min, d).v) = c
    THEN CHOOSE d \in 1..sfc.g : LimbsWord(sequence_code(sfc, n.min, d).v) = c
    ELSE 0

\* C10: XZ2SFC::index and XZ3SFC::index encode the min corner at depth g
\* when l1 >= g, at depth l1 + 1 exactly when the predicate holds on every
\* axis, at depth l1 otherwise; hence the extended box of the element
\* chosen encloses the indexed box on every axis.
CE_C10 ==
    (prog = "xzindex" /\ Returned) =>
        /\ CodeDepth(input.sfc, Normalized(input.sfc, input.b), out.v)
              = RuleDepth(input.sfc, Normalized(input.sfc, input.b),
                          ElOne(MaxDim(Normalized(input.sfc, input.b), input.sfc.D)))
        /\ Encloses(Normalized(input.sfc, input.b),
                    CodeDepth(input.sfc, Normalized(input.sfc, input.b), out.v))

\* the normalised boxes share a point
Intersects(a, b) ==
    \A k \in DOMAIN a.min : a.min[k] <= b.max[k] /\ b.min[k] <= a.max[k]

\* index(B) returns a code and some returned range holds it, for every
\* sampled box B that shares a point with the query window
NoFalseNegatives ==
    /\ Returned
    /\ \A nb \in NormBoxes(input.sfc.D, WindowCoords(input.sfc.D)) :
          Intersects(nb, Normalized(input.sfc, input.q)) =>
              /\ ~XZ_index(input.sfc, UserBox(input.sfc, nb)).p
              /\ ~XZ_index(input.sfc, UserBox(input.sfc, nb)).o
              /\ InSomeRange(XZ_index(input.sfc, UserBox(input.sfc, nb)).v, out.results)

\* C2: for XZ2SFC with any g >= 1, every box B inside the domain, every
\* query window Q inside the domain that shares a point with B and every
\* max_ranges, ranges(Q) contains a range r with
\* r.lower <= index(B) <= r.upper.
CE_C2 == (prog = "xzranges" /\ input.sfc.D = 2 /\ Ended) => NoFalseNegatives

\* C3: for XZ3SFC with any g >= 1, every box B inside the domain, every
\* query window Q inside the domain that shares a point with B and every
\* max_ranges, ranges(Q) contains a range r with
\* r.lower <= index(B) <= r.upper.
CE_C3 == (prog = "xzranges" /\ input.sfc.D = 3 /\ Ended) => NoFalseNegatives

(***************************************************************************)
(* Claims about the lists returned by zranges and by the ranges of         *)
(* XZ2SFC and XZ3SFC (checked under SpecRanges).                           *)
(***************************************************************************)
\* ascending by lower bound, and r_i.upper + 1 < r_{i+1}.lower
SortedDisjoint(rs) ==
    \A i \in 1..(Len(rs) - 1) :
        /\ ULe(rs[i].lower, rs[i + 1].lower)
        /\ rs[i].upper # BitPositions
        /\ ULt(UAdd1(rs[i].upper), rs[i + 1].lower)

\* C5: the list returned by zranges (Z2, Z3) and by XZ2SFC::ranges /
\* XZ3SFC::ranges is sorted ascending by lower bound, and any two
\* consecutive returned ranges satisfy r_i.upper + 1 < r_{i+1}.lower
\* (neither overlapping nor adjacent), for every input and budget.
Thm_C5 == (prog \in {"zranges", "xzranges"} /\ Returned) => SortedDisjoint(out.results)

\* a returned list of three or more ranges, after a merge pass that
\* coalesced some of the ranges it was given
Wit_C5 ==
    /\ prog \in {"zranges", "xzranges"}
    /\ Returned
    /\ Len(out.results) >= 3
    /\ Len(out.results) < Len(ranges)

(***************************************************************************)
(* Claims about sequence_interval (checked under SpecInterval).            *)
(***************************************************************************)
\* the closed intervals of u64 share no value
DisjointIntervals(a, b) == ULt(a.max, b.min) \/ ULt(b.max, a.min)

\* C11: for any two distinct elements at the same depth l (1 <= l <= g), in
\* particular two siblings, the intervals [min, max] that
\* sequence_interval(min corner, l, partial = false) returns share no
\* index, in XZ2SFC and in XZ3SFC.
CE_C11 ==
    (prog = "xzinterval" /\ Returned /\ ~input.partial) =>
        DisjointIntervals(out.a, out.b)

\* the u64 as limbs
WordLimbs(w) == [i \in 1..4 |-> SumPow({b - 16 * (i - 1) : b \in {c \in w : c \div 16 = i - 1}})]

\* (Q^n - 1) / (Q - 1) with Q = 2^D: the sum of Q^j over j < n
GeometricSum(D, n) == {D * j : j \in 0..(n - 1)}

\* max is min + (Q^(g-l+1) - 1) / (Q - 1), or min when partial
IntervalByFormula(sfc, iv, l, partial) ==
    IF partial THEN iv.max = iv.min
    ELSE /\ ~U64Add(Exact(WordLimbs(iv.min)),
                    Exact(WordLimbs(GeometricSum(sfc.D, sfc.g - l + 1)))).o
         /\ iv.max = LimbsWord(U64Add(Exact(WordLimbs(iv.min)),
                                      Exact(WordLimbs(GeometricSum(sfc.D, sfc.g - l + 1)))).v)

\* C13: for every g and level l in [1, g], sequence_interval with partial =
\* false returns max = min + (Q^(g-l+1) - 1)/(Q - 1), with Q = 4 in XZ2SFC
\* and Q = 8 in XZ3SFC; with partial = true it returns max = min.
CE_C13 ==
    (prog = "xzinterval" /\ Returned) =>
        /\ IntervalByFormula(input.sfc, out.a, input.length, input.partial)
        /\ IntervalByFormula(input.sfc, out.b, input.length, input.partial)

(***************************************************************************)
(* Claims about the Covered ranges of XZ2SFC and XZ3SFC (checked under     *)
(* SpecXZ).                                                                *)
(***************************************************************************)
\* the number of elements in the subtree of an element of depth i + 1
SubtreeSize(sfc, i) == Exact(WordLimbs(GeometricSum(sfc.D, sfc.g - i)))

\* the code of the child of rank k of the element of depth i with code acc
ChildCode(sfc, acc, k, i) ==
    U64Add(acc, U64Add(Exact(LimbsOne), U64Mul(k, SubtreeSize(sfc, i))))

\* the code r is at most the index c
CodeLe(r, c) == ~r.o /\ ULe(LimbsWord(r.v), c)

\* the rank of the child of depth i + 1 whose subtree holds the index c
RankOf(sfc, acc, c, i) ==
    CHOOSE k \in 0..(2 ^ sfc.D - 1) :
        /\ CodeLe(ChildCode(sfc, acc, k, i), c)
        /\ k = 2 ^ sfc.D - 1 \/ ~CodeLe(ChildCode(sfc, acc, k + 1, i), c)

RECURSIVE ElementOf(_, _, _, _)
\* the element whose sequence code is the index c, looked for below the
\* element s.el of depth i and code s.acc; None when no element has it
ElementOf(sfc, c, i, s) ==
    IF i >= sfc.g \/ ~CodeLe(ChildCode(sfc, s.acc, 0, i), c) THEN None
    ELSE Bind(RankOf(sfc, s.acc, c, i), LAMBDA k :
         Bind(ChildCode(sfc, s.acc, k, i), LAMBDA code :
            IF LimbsWord(code.v) = c THEN Some(XElement_children(s.el)[k + 1])
            ELSE ElementOf(sfc, c, i + 1,
                           [el |-> XElement_children(s.el)[k + 1], acc |-> code])))

\* the element of the index c
ElementOfCode(sfc, c) ==
    ElementOf(sfc, c, 0,
              [el |-> XElement([k \in 1..sfc.D |-> 0], [k \in 1..sfc.D |-> Units], Units),
               acc |-> Exact(LimbsZero)])

\* the indices of the range looked at: all of them on the curves sampled in
\* full, the two ends on the deep curve
IndicesOf(sfc, r) ==
    IF sfc.g <= MaxG THEN {Word(n) : n \in Num(r.lower)..Num(r.upper)}
    ELSE {r.lower, r.upper}

\* the index is the code of an element whose extended box is inside the window
CodeInside(sfc, c, window) ==
    /\ ElementOfCode(sfc, c) # None
    /\ XElement_is_contained(ElementOfCode(sfc, c)[1], window)

\* the normalised box is inside the window
BoxInside(nb, window) ==
    \A k \in DOMAIN nb.min : window.min[k] <= nb.min[k] /\ nb.max[k] <= window.max[k]

\* C12: every index inside a range tagged Covered returned by
\* XZ2SFC::ranges / XZ3SFC::ranges is the sequence code of an element (at
\* some depth) whose extended box lies entirely inside the query window,
\* so that no sampled box whose index falls in a Covered range reaches
\* outside of the query.
CE_C12 ==
    (prog = "xzranges" /\ Returned) =>
        \A j \in 1..Len(out.results) :
            out.results[j].contained =>
                /\ \A nb \in NormBoxes(input.sfc.D, WindowCoords(input.sfc.D)) :
                      (/\ ~XZ_index(input.sfc, UserBox(input.sfc, nb)).p
                       /\ InRange(XZ_index(input.sfc, UserBox(input.sfc, nb)).v,
                                  out.results[j]))
                          => BoxInside(nb, Normalized(input.sfc, input.q))
                /\ \A c \in IndicesOf(input.sfc, out.results[j]) :
                      CodeInside(input.sfc, c, Normalized(input.sfc, input.q))

CE_C15 ==
    (/\ prog = "zranges" /\ Returned
     /\ input.max_ranges # None /\ input.max_ranges[1] >= 1) =>
        Len(out.results) <= input.max_ranges[1]

\* one pass of `loop` as a function of the state s = [p, o, ranges,
\* remaining, offset, level]: p once a call has aborted, o once offset has
\* gone below zero (the release build goes on)
ZLoopPass(a, s) ==
    IF Head(s.remaining) = LEVEL_TERMINATOR
    THEN IF Tail(s.remaining) = <<>> THEN [s EXCEPT !.remaining = <<>>]
         ELSE IF s.offset = 0 \/ s.level + 1 >= MaxRecurseOf(a)
         THEN [s EXCEPT !.ranges = bottom_out(s.ranges, Tail(s.remaining)),
                        !.remaining = <<>>,
                        !.level = @ + 1,
                        !.offset = @ - DIMENSIONS(a.Z),
                        !.o = @ \/ s.offset < DIMENSIONS(a.Z)]
         ELSE [s EXCEPT !.remaining = Append(Tail(s.remaining), LEVEL_TERMINATOR),
                        !.level = @ + 1,
                        !.offset = @ - DIMENSIONS(a.Z),
                        !.o = @ \/ s.offset < DIMENSIONS(a.Z)]
    ELSE Bind(CheckQuadrants(a.Z, Head(s.remaining).min[1], 0, s.offset,
                             a.zbounds, a.precision,
                             [p |-> FALSE, ranges |-> s.ranges,
                              remaining |-> Tail(s.remaining)]),
              LAMBDA st :
                 IF st.p THEN [s EXCEPT !.p = TRUE]
                 ELSE IF ExceedsMaxRanges(Len(st.ranges) + Len(st.remaining), a)
                 THEN [s EXCEPT !.ranges = bottom_out(st.ranges, st.remaining),
                                !.remaining = <<>>]
                 ELSE [s EXCEPT !.ranges = st.ranges, !.remaining = st.remaining])

RECURSIVE ZLoop(_, _)
\* `loop` up to its break
ZLoop(a, s) ==
    IF s.p \/ s.remaining = <<>> THEN s
    ELSE Bind(ZLoopPass(a, s), LAMBDA t : ZLoop(a, t))

\* the state in which zranges enters `loop`
ZLoopEntry(a, lcp) ==
    Bind(check_value(a.Z, lcp.prefix, 0, 64 - lcp.precision, a.zbounds, a.precision,
                     [p |-> FALSE, ranges |-> <<>>, remaining |-> <<>>]),
         LAMBDA st : [p |-> st.p, o |-> FALSE, ranges |-> st.ranges,
                      remaining |-> Append(st.remaining, LEVEL_TERMINATOR),
                      offset |-> (64 - lcp.precision) - DIMENSIONS(a.Z),
                      level |-> 0])

\* zranges(a.zbounds, a.precision, a.max_ranges, a.max_recurse) as a
\* function of its arguments: [p, o, results], with o for an overflow
\* that aborts the debug build
ZRangesOf(a) ==
    Bind(ZLoop(a, ZLoopEntry(a, longest_common_prefix(a.Z, Endpoints(a.zbounds)))),
         LAMBDA s :
            IF s.p THEN [p |-> TRUE, o |-> FALSE, results |-> <<>>]
            ELSE Bind(MergeRanges(s.ranges), LAMBDA m :
                    [p |-> FALSE, o |-> s.o \/ m.overflow, results |-> m.results]))

\* a max_recurse no sampled call reaches: the unlimited recursion budget
UnlimitedRecurse == Some(64)

\* the budgets of a are at most those of b (None is no cap on the ranges,
\* and DEFAULT_RECURSE levels)
BudgetLe(a, b) ==
    /\ b.max_ranges = None \/ (a.max_ranges # None /\ a.max_ranges[1] <= b.max_ranges[1])
    /\ MaxRecurseOf(a) <= MaxRecurseOf(b)

\* the call a with the budgets replaced
WithBudgets(a, max_ranges, max_recurse) ==
    [a EXCEPT !.max_ranges = max_ranges, !.max_recurse = max_recurse]

\* every z-index of the ranges of qs lies in a range of rs (rs is merged, so
\* a range of qs lies in one range of rs)
CoversAll(rs, qs) ==
    \A i \in 1..Len(qs) : \E j \in 1..Len(rs) :
        ULe(rs[j].lower, qs[i].lower) /\ ULe(qs[i].upper, rs[j].upper)

\* C16: for every non-empty bounds list, the set of z-indices covered by the
\* ranges zranges returns under any max_recurse and max_ranges is a superset
\* of the set covered when both budgets are unlimited; lowering max_recurse
\* or max_ranges never removes an index from the result.
Thm_C16 ==
    (prog = "zranges" /\ Returned) =>
        \A max_ranges \in MaxRangesSet : \A max_recurse \in MaxRecurseSet \cup {UnlimitedRecurse} :
            (/\ WithBudgets(input, max_ranges, max_recurse) # input
             /\ BudgetLe(input, WithBudgets(input, max_ranges, max_recurse))) =>
                \A r \in {ZRangesOf(WithBudgets(input, max_ranges, max_recurse))} :
                    ~r.p => CoversAll(out.results, r.results)

\* a call with a budget that returns strictly more than the unlimited call:
\* the unlimited result has more ranges, all of them inside the returned ones
Wit_C16 ==
    /\ prog = "zranges" /\ Returned
    /\ input.max_ranges # None \/ input.max_recurse # None
    /\ Len(ZRangesOf(WithBudgets(input, None, UnlimitedRecurse)).results) > Len(out.results)
    /\ \E j \in 1..Len(out.results) : ~out.results[j].contained

\* the number of D-bit levels below the common-prefix cube of the bounds
PrefixLevels(a) ==
    (64 - longest_common_prefix(a.Z, Endpoints(a.zbounds)).precision) \div DIMENSIONS(a.Z)

\* precision 64, no cap on the ranges and a recursion budget that reaches
\* the single cells
FullBudget(a) ==
    /\ a.precision = 64
    /\ a.max_ranges = None
    /\ MaxRecurseOf(a) >= PrefixLevels(a)

\* the returned ranges are all Covered and hold exactly the z-indices that
\* decode into the user-space box of some bound
ExactCover ==
    /\ \A i \in 1..Len(out.results) : out.results[i].contained
    /\ CoveredInsideBounds
    /\ \A pt \in SamplePoints(input.Z) :
          InSomeBox(input.Z, input.zbounds, pt) =>
              InSomeRange(NewZ(input.Z, pt).v, out.results)

\* C17: with precision 64, max_ranges unlimited and max_recurse at least the
\* number of D-bit levels below the common-prefix cube, zranges returns only
\* Covered ranges (no Overlapping range at all) and their union is exactly
\* the set of z-indices whose decoded coordinates lie in the user-space box
\* of some bound.
CE_C17 ==
    (prog = "zranges" /\ Ended /\ FullBudget(input)) => (Returned /\ ExactCover)

(***************************************************************************)
(* Claims about the merge pass (checked under SpecRanges).                 *)
(***************************************************************************)
\* the pre-merge range q was coalesced into the returned range r
CoalescedInto(q, r) == ULe(r.lower, q.lower) /\ ULe(q.upper, r.upper)

\* C18: in the merge pass of zranges and of the XZ ranges, a returned range
\* is tagged Covered if and only if every pre-merge range coalesced into it
\* was Covered; coalescing at least one Overlapping range makes the returned
\* range Overlapping.
Thm_C18 ==
    (prog \in {"zranges", "xzranges"} /\ Returned) =>
        \A j \in 1..Len(out.results) :
            out.results[j].contained <=>
                \A i \in 1..Len(ranges) :
                    CoalescedInto(ranges[i], out.results[j]) => ranges[i].contained

\* a returned Overlapping range that coalesced a Covered range, next to a
\* returned Covered range that coalesced two ranges
Wit_C18 ==
    /\ prog \in {"zranges", "xzranges"} /\ Returned
    /\ \E j \in 1..Len(out.results) : \E i \in 1..Len(ranges) :
          /\ ~out.results[j].contained
          /\ ranges[i].contained
          /\ CoalescedInto(ranges[i], out.results[j])
    /\ \E j \in 1..Len(out.results) :
          /\ out.results[j].contained
          /\ Cardinality({i \in 1..Len(ranges) : CoalescedInto(ranges[i], out.results[j])}) >= 2

(***************************************************************************)
(* Claims about index and point / invert (checked under SpecPoint).        *)
(***************************************************************************)
\* the cell of the grid for the coordinate v of an axis that runs from lo
\* to hi: the cell v falls in, the first cell below the box and the last
\* cell above it
GridCell(curve, v, lo, hi) ==
    IF v < lo THEN 0
    ELSE IF v > hi THEN curve.resolution - 1
    ELSE (v - lo) * (curve.resolution \div (hi - lo))

\* the column, row and depth of the point pt, each clamped into the grid
\* (rows count down from y_max)
GridCells(curve, pt) ==
    [k \in 1..DIMENSIONS(curve.Z) |->
        IF k = 1 THEN Word(GridCell(curve, pt[1], curve.x_min, curve.x_max))
        ELSE IF k = 2
        THEN Word(GridCell(curve, curve.y_max + curve.y_min - pt[2], curve.y_min, curve.y_max))
        ELSE Word(GridCell(curve, pt[3], 0, curve.z_max))]

\* C19: ZCurve2D::index and ZCurve3D::index return a value without panicking
\* for every finite input coordinate, including coordinates arbitrarily far
\* outside the configured box, and an out-of-box coordinate yields the index
\* of a cell on the box boundary (column / row / depth clamped into the grid
\* [0, resolution - 1]).
CE_C19 ==
    (prog = "index" /\ Ended) =>
        /\ Returned
        /\ out.v = Interleave(DIMENSIONS(input.curve.Z), GridCells(input.curve, input.pt))

\* the coordinate k of the cell the index i decodes to
CellOf(D, i, k) == {b \div D : b \in {c \in i : c % D = k - 1}}

\* the centre of the cell number cell of an axis of cells of side w (in
\* quarters) that starts at lo, clamped to [lo, hi]
CellCentre(curve, cell, w, lo, hi) ==
    IF ~ULt(cell, Word(curve.resolution)) THEN hi
    ELSE MinMax(lo + Num(cell) * w + w \div 2, hi, lo)

\* x_min + (col + 1/2) * cell_width, y_max - (row + 1/2) * cell_height and
\* (depth + 1/2) * cell_depth, each clamped to the box, in quarters
CellCentres(curve, i) ==
    [k \in 1..DIMENSIONS(curve.Z) |->
        IF k = 1
        THEN CellCentre(curve, CellOf(DIMENSIONS(curve.Z), i, 1), cell_width(curve),
                        4 * curve.x_min, 4 * curve.x_max)
        ELSE IF k = 2
        THEN 4 * (curve.y_max + curve.y_min)
                - CellCentre(curve, CellOf(DIMENSIONS(curve.Z), i, 2), cell_height(curve),
                             4 * curve.y_min, 4 * curve.y_max)
        ELSE CellCentre(curve, CellOf(DIMENSIONS(curve.Z), i, 3), cell_depth(curve),
                        0, 4 * curve.z_max)]

\* C20: ZCurve2D::point(i) and ZCurve3D::invert(i) return, on every axis,
\* the centre of the cell decoded from i: x_min + (col + 1/2) * cell_width,
\* y_max - (row + 1/2) * cell_height and, for time, (depth + 1/2) *
\* cell_depth, each clamped to the configured box.
CE_C20 ==
    (prog = "point" /\ Ended) =>
        /\ Returned
        /\ out.v = CellCentres(input.curve, input.i)

(***************************************************************************)
(* Claims about the boxes XZ2SFC and XZ3SFC reject (checked under SpecXZ). *)
(***************************************************************************)
\* the box given to the call
CallBox == IF prog = "xzindex" THEN input.b ELSE input.q

\* min > max on some axis, or the box is not inside the configured domain
RejectedBox(sfc, b) ==
    \E k \in 1..sfc.D :
        \/ b.min[k] > b.max[k]
        \/ b.min[k] < sfc.min[k]
        \/ b.max[k] > sfc.max[k]

\* C21: XZ2SFC and XZ3SFC index and ranges abort (panic) and return no
\* value when given an inverted box (min > max on some axis) or a box that
\* is not inside the configured domain.
CE_C21 ==
    (prog \in {"xzindex", "xzranges"} /\ Ended /\ RejectedBox(input.sfc, CallBox)) =>
        ~Returned

(***************************************************************************)
(* Claims about the constructors Z2::new and Z3::new (checked under        *)
(* SpecCodec).                                                             *)
(***************************************************************************)
\* Z2::new or Z3::new has been called and nothing after it
AfterNew == prog = "codec" /\ DOMAIN out = {"p", "z"}

\* C22: Z2::new and Z3::new abort when any coordinate exceeds MAX_MASK
\* (2^31 - 1 for Z2, 2^21 - 1 for Z3) and return normally for every
\* coordinate tuple within [0, MAX_MASK]; no z value is produced from an
\* out-of-range coordinate.
Thm_C22 ==
    AfterNew =>
        IF Z2InRange \/ Z3InRange THEN pc = "encoded" /\ ~out.p
        ELSE pc = "panic" /\ out.p

\* Z3::new has aborted on a triple whose third coordinate alone, 2^21, is
\* above MAX_MASK
Wit_C22 ==
    /\ AfterNew /\ input.Z = "Z3" /\ pc = "panic"
    /\ input.z = {21} /\ input.y = {} /\ input.x = Z3_MAX_MASK

(***************************************************************************)
(* Claims about NormalizedDimension (checked under SpecNorm).              *)
(***************************************************************************)
\* C23: for every normaliser precision in [1, 31] and every input x,
\* including x below min and x above max, normalize(x) lies in
\* [0, max_index] with max_index = 2^precision - 1.
CE_C23 ==
    (prog = "normalize" /\ Returned) =>
        /\ out.v >= 0
        /\ out.v <= (2 ^ (input.norm.precision - 1) - 1) + 2 ^ (input.norm.precision - 1)

(***************************************************************************)
(* Claims about BinnedTime (checked under SpecBinned).                     *)
(***************************************************************************)
\* the length of a period in minutes: 1 day, 1 week, 31 days, 52 weeks
PeriodMinutes(period) ==
    IF period = "Day" THEN 1440
    ELSE IF period = "Week" THEN 7 * 1440
    ELSE IF period = "Month" THEN 31 * 1440
    ELSE 52 * 7 * 1440

\* bin periods plus the offset in its unit, as a duration
BinPlusOffset(period, bt) ==
    [neg |-> bt.bin < 0 \/ bt.offset < 0,
     m |-> Abs(bt.bin) * PeriodMinutes(period)
              + (IF bt.unit = "Milliseconds" THEN Abs(bt.offset) \div 60000
                 ELSE IF bt.unit = "Seconds" THEN Abs(bt.offset) \div 60
                 ELSE Abs(bt.offset)),
     ms |-> IF bt.unit = "Milliseconds" THEN Abs(bt.offset) % 60000
            ELSE IF bt.unit = "Seconds" THEN (Abs(bt.offset) % 60) * 1000
            ELSE 0]

\* t truncated to whole milliseconds, seconds or minutes
TruncatedTo(unit, t) ==
    IF unit = "Milliseconds" THEN t
    ELSE IF unit = "Seconds"
    THEN [neg |-> t.neg /\ (t.m # 0 \/ t.ms >= 1000), m |-> t.m, ms |-> (t.ms \div 1000) * 1000]
    ELSE [neg |-> t.neg /\ t.m # 0, m |-> t.m, ms |-> 0]

\* the unit of the offset of a period
UnitOf(period) ==
    IF period = "Day" THEN "Milliseconds" ELSE IF period = "Year" THEN "Minutes" ELSE "Seconds"

\* C24: for each TimePeriod P in {Day, Week, Month, Year} and every
\* millisecond count t, BinnedTime::from_millis(P, t) round-trips: bin times
\* the period length (1 day, 1 week, 31 days, 52 weeks) plus the offset in
\* its unit (ms, s, s, min) equals t truncated to whole units of the offset
\* (t itself for Day, whole seconds for Week and Month, whole minutes for
\* Year).
CE_C24 ==
    (prog = "from_millis" /\ Returned) =>
        /\ out.v.unit = UnitOf(input.period)
        /\ BinPlusOffset(input.period, out.v) = TruncatedTo(UnitOf(input.period), input.millis)

(***************************************************************************)
(* Claims about longest_common_prefix (checked under SpecLcp).             *)
(***************************************************************************)
\* all values have the same n leading bits
SharedLeading(values, n) ==
    \A i \in 1..Len(values) : \A b \in (64 - n)..63 : b \in values[i] <=> b \in values[1]

\* the prefix lengths that end on a group of D bits: 64 less a multiple of D
PrefixLengths(Z) == {64 - DIMENSIONS(Z) * j : j \in 0..(TOTAL_BITS(Z) \div DIMENSIONS(Z))}

\* the longest of them that all values share
LongestShared(Z, values) ==
    CHOOSE n \in PrefixLengths(Z) :
        /\ SharedLeading(values, n)
        /\ \A k \in PrefixLengths(Z) : SharedLeading(values, k) => k <= n

\* C25: for every non-empty slice, Z2/Z3::longest_common_prefix returns the
\* longest prefix, counted in whole D-bit groups, shared by all values:
\* prefix is values[0] with exactly the non-shared low bits cleared and
\* precision is the number of shared leading bits, including the case where
\* all values are equal or the slice has one value (prefix = the value,
\* precision = 64).
CE_C25 ==
    (prog = "lcp" /\ Returned) =>
        /\ out.v.precision = LongestShared(input.Z, input.values)
        /\ out.v.prefix = {b \in input.values[1] : b >= 64 - out.v.precision}

(***************************************************************************)
(* Claims about the refinement loop of zranges (checked under SpecZ).     *)
(***************************************************************************)
\* the terminator arm is about to execute offset -= DIMENSIONS
TerminatorStep ==
    /\ prog = "zranges" /\ pc = "loop"
    /\ Head(remaining) = LEVEL_TERMINATOR
    /\ Tail(remaining) # <<>>

\* no offset -= DIMENSIONS goes below zero: the initial step has left
\* offset >= 0, and the terminator arm finds offset >= DIMENSIONS
OffsetSafe ==
    /\ (prog = "zranges" /\ pc = "loop") => offset >= 0
    /\ TerminatorStep => offset >= DIMENSIONS(input.Z)

\* the number of pending cubes ahead of the level terminator
RECURSIVE Ahead(_)
Ahead(rem) ==
    IF rem = <<>> \/ Head(rem) = LEVEL_TERMINATOR THEN 0 ELSE 1 + Ahead(Tail(rem))

\* a pass of the loop ends the call, or lowers offset, or keeps offset and
\* leaves fewer cubes ahead of the terminator: offset being bounded below,
\* the loop cannot go on for ever
LoopProgress ==
    (prog = "zranges" /\ pc = "loop") =>
        \/ pc' \in {"done", "panic"}
        \/ offset' < offset
        \/ offset' = offset /\ Ahead(remaining') < Ahead(remaining)

\* C26: for every non-empty bounds list, precision in [1, 64] and every
\* max_ranges / max_recurse, the zranges refinement loop terminates, and
\* offset is never decremented below zero: whenever the terminator branch
\* or the initial step executes offset -= D, offset >= D holds (no unsigned
\* underflow).
Thm_C26 == []OffsetSafe /\ [][LoopProgress]_vars

\* the loop has come to the terminator with pending cubes and offset = D:
\* the decrement that leaves offset = 0
Wit_C26 == TerminatorStep /\ offset = DIMENSIONS(input.Z)

\* the bit count below the common prefix of the bounds of the call
Offset0(a) == 64 - longest_common_prefix(a.Z, Endpoints(a.zbounds)).precision

\* the closed interval [lo, hi] of an aligned cube holds at least 2^k
\* z-indices: hi has k or more bits that lo has not
AtLeastPow(lo, hi, k) == k <= 0 \/ Cardinality(hi \ lo) >= k

\* every pre-merge range and every pending item is a cube of 2^k z-indices
\* or more
CubesAtLeast(k) ==
    /\ \A i \in 1..Len(ranges) : AtLeastPow(ranges[i].lower, ranges[i].upper, k)
    /\ \A i \in 1..Len(remaining) :
          remaining[i] # LEVEL_TERMINATOR =>
              AtLeastPow(remaining[i].min[1], remaining[i].max[1], k)

\* C27: with max_recurse = n (any n >= 0), zranges classifies sub-cubes at
\* most n levels below the common-prefix cube: every pre-merge range and
\* every pending item has size at least 2^(offset0 - n*D) z-indices, where
\* offset0 is the bit count below the common prefix.
CE_C27 ==
    (prog = "zranges" /\ pc \in {"loop", "done"}) =>
        CubesAtLeast(Offset0(input) - MaxRecurseOf(input) * DIMENSIONS(input.Z))

(***************************************************************************)
(* Claims about the loop of XZ ranges_impl (checked under SpecXZ).         *)
(***************************************************************************)
\* the state the next pass of the main loop leaves: the queue of level one
\* on entry, the terminator arm, or check_value of the element popped
NextPass ==
    IF pc = "start"
    THEN [ranges |-> <<>>,
          remaining |-> [c \in 1..(2 ^ input.sfc.D) |->
                            Some(level_one_elements(input.sfc.D)[c])]
                        \o <<XZ_LEVEL_TERMINATOR>>,
          level |-> 1]
    ELSE IF Head(remaining) = XZ_LEVEL_TERMINATOR
    THEN (IF Tail(remaining) # <<>>
          THEN [ranges |-> ranges,
                remaining |-> Append(Tail(remaining), XZ_LEVEL_TERMINATOR),
                level |-> level + 1]
          ELSE [ranges |-> ranges, remaining |-> <<>>, level |-> level])
    ELSE XZ_check_value(input.sfc, Head(remaining)[1], level,
                        XZ_normalize(input.sfc, input.q).v,
                        [ranges |-> ranges, remaining |-> Tail(remaining),
                         level |-> level, o |-> FALSE])

\* the side of the element is 2^-lv
SideIs(el, lv) == el.max[1] - el.min[1] = HalfPow(lv)

\* the drain of the queue of the state st gives every element its own depth
DrainByDepth(st) ==
    \A j \in 1..Len(st.remaining) :
        IsElement(st.remaining[j]) =>
            SideIs(st.remaining[j][1], DrainLevel(st.remaining, st.level, j))

\* the call is in ranges_impl, before a pass of the main loop
BeforePass ==
    /\ prog = "xzranges" /\ pc \in {"start", "loop"}
    /\ ~XZ_normalize(input.sfc, input.q).p

\* C28: in XZ2SFC / XZ3SFC ranges_impl, every XElement that is turned into
\* a sequence interval, both in check_value and in the drain after the main
\* loop, is given a level equal to its own depth in the tree (element side
\* = 2^-level), whichever condition ended the main loop (level = g, empty
\* queue, or range_stop reached mid-level).
Thm_C28 ==
    BeforePass =>
        /\ (pc = "loop" /\ IsElement(Head(remaining))) => SideIs(Head(remaining)[1], level)
        /\ \A st \in {NextPass} : ~XLoopCondition(input, st) => DrainByDepth(st)

\* range_stop ends the main loop in the middle of a level: the drain finds
\* elements of that level, the terminator, and children of the next level
Wit_C28 ==
    /\ BeforePass /\ pc = "loop"
    /\ \E st \in {NextPass} :
          /\ st.level < input.sfc.g
          /\ Len(st.ranges) >= RangeStop(input)
          /\ IsElement(Head(st.remaining))
          /\ IsElement(st.remaining[Len(st.remaining)])
          /\ DrainByDepth(st)

(***************************************************************************)
(* Claims about the queue of zranges (checked under SpecZ).                *)
(***************************************************************************)
\* the pending item is an aligned cube of 2^k z-indices
IsCube(item, k) ==
    /\ item.max[1] \ item.min[1] = {b \in BitPositions : b < k}
    /\ item.min[1] \subseteq item.max[1]

\* the positions of the level terminators in the queue
Terminators(rem) == {i \in 1..Len(rem) : rem[i] = LEVEL_TERMINATOR}

\* C29: at every iteration of the zranges loop before bottom-out, the
\* pending queue holds exactly one level terminator; every item ahead of
\* the terminator is a cube of 2^(offset + D) z-indices awaiting
\* subdivision and every item behind it is a cube of 2^offset z-indices, so
\* all cubes of one level are classified before any cube of the next level.
Thm_C29 ==
    (prog = "zranges" /\ pc = "loop") =>
        /\ Cardinality(Terminators(remaining)) = 1
        /\ \A t \in Terminators(remaining) : \A i \in 1..Len(remaining) :
              /\ i < t => IsCube(remaining[i], offset + DIMENSIONS(input.Z))
              /\ i > t => IsCube(remaining[i], offset)

\* an iteration begins with cubes on both sides of the terminator
Wit_C29 ==
    /\ prog = "zranges" /\ pc = "loop"
    /\ remaining[1] # LEVEL_TERMINATOR
    /\ remaining[Len(remaining)] # LEVEL_TERMINATOR
    /\ IsCube(remaining[1], offset + DIMENSIONS(input.Z))
    /\ IsCube(remaining[Len(remaining)], offset)

(***************************************************************************)
(* Claims about the width of the XZ arithmetic (checked under              *)
(* SpecInterval).                                                          *)
(***************************************************************************)
\* neither the code accumulated by sequence_code nor the end computed by
\* sequence_interval has left the 64 bits
WithinU64(iv) == ~iv.min.o /\ ~iv.max.o

\* C30: for every g in [1, 31], all integer arithmetic in the region
\* curves' sequence_code and sequence_interval (the powers Q^(g-i) and
\* Q^(g-l+1), the products k*(Q^(g-i) - 1), and the accumulated code) stays
\* within unsigned 64 bits without overflow, for XZ2SFC (Q = 4) and for
\* XZ3SFC (Q = 8).
CE_C30 ==
    (prog = "xzinterval" /\ Ended) =>
        /\ WithinU64(sequence_interval(input.sfc, input.a, input.length, input.partial))
        /\ WithinU64(sequence_interval(input.sfc, input.b, input.length, input.partial))

====
